---------------------------- MODULE Spec2Model ----------------------------
(***************************************************************************)
(* A model of the sre2 regular-expression engine (parser, cleanup pass,    *)
(* matcher) and of the Soundex transform of the gophonetic repository.     *)
(*                                                                         *)
(* Strings are sequences of code points (integers).  Instructions are      *)
(* records kept in a sequence; an instruction pointer is the 0-based       *)
(* position of the instruction in that sequence, Nil for a nil pointer.    *)
(***************************************************************************)
EXTENDS Integers, Sequences, FiniteSets, TLC

(***************************************************************************)
(* Code points.                                                            *)
(***************************************************************************)
\* The printable ASCII characters, code points 32..126, in order (code point
\* 96 by its name).
AsciiTable ==
  << " ", "!", "\"", "#", "$", "%", "&", "'", "(", ")", "*", "+", ",", "-",
     ".", "/", "0", "1", "2", "3", "4", "5", "6", "7", "8", "9", ":", ";",
     "<", "=", ">", "?", "@", "A", "B", "C", "D", "E", "F", "G", "H", "I",
     "J", "K", "L", "M", "N", "O", "P", "Q", "R", "S", "T", "U", "V", "W",
     "X", "Y", "Z", "[", "\\", "]", "^", "_", "backquote", "a", "b", "c", "d", "e",
     "f", "g", "h", "i", "j", "k", "l", "m", "n", "o", "p", "q", "r", "s",
     "t", "u", "v", "w", "x", "y", "z", "{", "|", "}", "~" >>

\* ord[c]: the code point of the one-character string c (a Go rune literal).
ord ==
  CHOOSE f \in {[c \in {t[i] : i \in 1..Len(t)} |->
                   31 + (CHOOSE i \in 1..Len(t) : t[i] = c)] :
                 t \in {AsciiTable}} : TRUE

RECURSIVE S(_)
\* A Go string literal, written as a tuple of one-character strings.
S(cs) == IF cs = <<>> THEN <<>> ELSE <<ord[Head(cs)]>> \o S(Tail(cs))

\* The value curr(), nextCh() and peek() give at the end of the input.
EOF == -1

\* A nil *instr.
Nil == -1

RECURSIVE Flatten(_)
\* The concatenation of a sequence of strings.
Flatten(ss) == IF ss = <<>> THEN <<>> ELSE Head(ss) \o Flatten(Tail(ss))

\* strings.Index(s[from:], sub) as a position of s (1-based), 0 when absent.
IndexFrom(s, sub, from) ==
  LET hits == {i \in from..(Len(s) - Len(sub) + 1) :
                  \A j \in 1..Len(sub) : s[i + j - 1] = sub[j]}
  IN IF hits = {} THEN 0 ELSE CHOOSE i \in hits : \A k \in hits : i <= k

\* strings.HasPrefix(s[at:], pre), at a 1-based position.
HasPrefixAt(s, pre, at) ==
  /\ at >= 1
  /\ at + Len(pre) - 1 <= Len(s)
  /\ \A j \in 1..Len(pre) : s[at + j - 1] = pre[j]

IsDigit(c) == c >= ord["0"] /\ c <= ord["9"]
IsAsciiUpper(c) == c >= ord["A"] /\ c <= ord["Z"]
IsAsciiLower(c) == c >= ord["a"] /\ c <= ord["z"]

\* unicode.ToLower and unicode.ToUpper, on the code points the model draws.
ToLower(c) == IF IsAsciiUpper(c) THEN c + 32 ELSE c
ToUpper(c) == IF IsAsciiLower(c) THEN c - 32 ELSE c

(***************************************************************************)
(* The input cursor (SafeReader).  pos is the 1-based position of the      *)
(* current code point: 0 before the first nextCh(), Len(str) + 1 at the    *)
(* end of the input.  A SafeReader is a Go struct: assigning it copies it. *)
(***************************************************************************)
NewSafeReader(str) == [str |-> str, pos |-> 0]

SrcCurr(src) ==
  IF src.pos >= 1 /\ src.pos <= Len(src.str) THEN src.str[src.pos] ELSE EOF

SrcPeek(src) ==
  IF src.pos + 1 >= 1 /\ src.pos + 1 <= Len(src.str)
    THEN src.str[src.pos + 1] ELSE EOF

\* nextCh(): step to the next code point; at the end of the input the cursor
\* stays there and the value is EOF.
SrcNextCh(src) ==
  [src EXCEPT !.pos = IF @ <= Len(src.str) THEN @ + 1 ELSE @]

(***************************************************************************)
(* Instructions and the transient parser state.                            *)
(***************************************************************************)
\* The nil RuneFilter, and the filters of data.go as tagged values:
\*   rune a | range a..b | any | notnl | table name (a named range table) |
\*   union fs | not fs[1] | icase fs[1]
NoFilter == [k |-> "nil", a |-> 0, b |-> 0, name |-> "", fs |-> <<>>]
matchRune(to_match) ==
  [k |-> "rune", a |-> to_match, b |-> to_match, name |-> "", fs |-> <<>>]
matchRuneRange(from, to) ==
  [k |-> "range", a |-> from, b |-> to, name |-> "", fs |-> <<>>]
FilterAny == [k |-> "any", a |-> 0, b |-> 0, name |-> "", fs |-> <<>>]
FilterNotNewline == [k |-> "notnl", a |-> 0, b |-> 0, name |-> "", fs |-> <<>>]
FilterTable(name) == [k |-> "table", a |-> 0, b |-> 0, name |-> name, fs |-> <<>>]
FilterUnion(filters) ==
  [k |-> "union", a |-> 0, b |-> 0, name |-> "", fs |-> filters]
FilterNot(r) == [k |-> "not", a |-> 0, b |-> 0, name |-> "", fs |-> <<r>>]
FilterIgnoreCase(r) ==
  [k |-> "icase", a |-> 0, b |-> 0, name |-> "", fs |-> <<r>>]

\* &instr{pos, iSplit, nil, nil, bNone, nil, -1, ""}
MkInstr(pos) ==
  [idx |-> pos, mode |-> "iSplit", out |-> Nil, out1 |-> Nil, lr |-> "bNone",
   rune |-> NoFilter, cid |-> -1, cname |-> <<>>]

\* parser{&sregexp{make([]*instr, 0, 1), -1, 1}, NewSafeReader(src), 0}
\* flags is the set of the bits set in the int64.  status is "ok" while the
\* parse runs, "panic" after panic(string) (msg tells which), "crash" after a
\* Go run-time error and "hang" once a loop is found to repeat its own state.
\* groups and closures record, for the properties, what term() and closure()
\* did; the program does not read them.
NewParser(src) ==
  [prog |-> <<>>, cap |-> 1, start |-> -1, caps |-> 1,
   src |-> NewSafeReader(src), flags |-> {},
   status |-> "ok", msg |-> "",
   groups |-> <<>>, closures |-> <<>>, classes |-> <<>>]

Curr(p) == SrcCurr(p.src)
Peek(p) == SrcPeek(p.src)
NextCh(p) == [p EXCEPT !.src = SrcNextCh(@)]
Panic(p, m) == [p EXCEPT !.status = "panic", !.msg = m]
Crash(p, m) == [p EXCEPT !.status = "crash", !.msg = m]
Hang(p, m) == [p EXCEPT !.status = "hang", !.msg = m]

\* The instruction a pointer refers to.
At(prog, i) == prog[i + 1]

\* literal(prefix, suffix): the text between prefix, which must start at the
\* cursor, and the nearest suffix after it; the cursor ends on the code point
\* after the suffix.
Literal(p, prefix, suffix) ==
  LET str == p.src.str
      from == p.src.pos + Len(prefix)
      hit == IndexFrom(str, suffix, from)
  IN IF ~HasPrefixAt(str, prefix, p.src.pos)
       THEN [p |-> Panic(p, "literal: prefix not found"), lit |-> <<>>]
     ELSE IF hit = 0
       THEN [p |-> Panic(p, "literal: suffix not found"), lit |-> <<>>]
     ELSE [p |-> [p EXCEPT !.src.pos = hit + Len(suffix)],
           lit |-> SubSeq(str, from, hit - 1)]

\* consume(s): step over s, which must start at the cursor.
Consume(p, s) ==
  IF ~HasPrefixAt(p.src.str, s, p.src.pos)
    THEN Panic(p, "consume: text not found")
    ELSE [p EXCEPT !.src.pos = @ + Len(s)]

\* p.instr(): append a new iSplit instruction; the slice doubles its capacity
\* when full.  The new instruction is the last of the program.  Nothing runs
\* in a parser that has stopped.
NewInstr(p) ==
  LET pos == Len(p.prog) IN
  IF p.status # "ok" THEN p
  ELSE IF pos = p.cap /\ pos = 0
    THEN Panic(p, "should not have cap of zero")
  ELSE [p EXCEPT !.prog = Append(@, MkInstr(pos)),
                 !.cap = IF pos = p.cap THEN pos * 2 ELSE @]

\* The bit a flag character sets: byte(c - 64), and 1 << n is 0 in an int64
\* for n >= 64.
FlagBits(c) ==
  LET flag == (c - 64) % 256 IN IF flag < 64 THEN {flag} ELSE {}

\* p.flag(flag)
FlagInRange(flag) == ~(flag < 64 \/ flag > 127)
Flag(p, flag) == (FlagBits(flag) \cap p.flags) # {}

\* p.out(from, to); nothing runs in a parser that has stopped.
Out(p, from, to) ==
  LET f == At(p.prog, from) IN
  IF p.status # "ok" THEN p
  ELSE IF f.out = Nil
    THEN [p EXCEPT !.prog[from + 1].out = to]
  ELSE IF f.mode = "iSplit" /\ f.out1 = Nil
    THEN [p EXCEPT !.prog[from + 1].out1 = to]
  ELSE Panic(p, "can't out")

(***************************************************************************)
(* The named range tables: posix_groups, perl_groups and the tables of     *)
(* package unicode that matchUnicodeClass searches, each as the set of the *)
(* code points of Universe it holds.                                       *)
(***************************************************************************)
\* The code points the model tells apart: ASCII, and U+0663 (ARABIC-INDIC
\* DIGIT THREE), a digit of another script.
ArabicIndicThree == 1635
Universe == (0..127) \cup {ArabicIndicThree}

PunctSet == (33..47) \cup (58..64) \cup (91..96) \cup (123..126)
UpperSet == 65..90
LowerSet == 97..122
DigitSet == 48..57
SpaceSet == {9, 10, 11, 12, 13, 32}
WordSet == DigitSet \cup UpperSet \cup LowerSet \cup {95}

\* posix_groups[name], for the names the model knows.
PosixNames == {"alpha", "digit", "punct", "space", "upper", "lower", "alnum"}
PosixName(name) ==
  CASE name = S(<<"a", "l", "p", "h", "a">>) -> "alpha"
    [] name = S(<<"d", "i", "g", "i", "t">>) -> "digit"
    [] name = S(<<"p", "u", "n", "c", "t">>) -> "punct"
    [] name = S(<<"s", "p", "a", "c", "e">>) -> "space"
    [] name = S(<<"u", "p", "p", "e", "r">>) -> "upper"
    [] name = S(<<"l", "o", "w", "e", "r">>) -> "lower"
    [] name = S(<<"a", "l", "n", "u", "m">>) -> "alnum"
    [] OTHER -> ""

\* perl_groups[c], for c one of d, s, w.
PerlName(c) ==
  CASE c = ord["d"] -> "perl_d"
    [] c = ord["s"] -> "perl_s"
    [] c = ord["w"] -> "perl_w"
    [] OTHER -> ""

\* The keys of unicode.Categories, Properties and Scripts the model knows.
UnicodeKeys ==
  { S(<<"L">>), S(<<"L", "u">>), S(<<"L", "l">>), S(<<"N">>), S(<<"N", "d">>) }
UnicodeKeyName(key) ==
  CASE key = S(<<"L">>) -> "L"
    [] key = S(<<"L", "u">>) -> "Lu"
    [] key = S(<<"L", "l">>) -> "Ll"
    [] key = S(<<"N">>) -> "N"
    [] key = S(<<"N", "d">>) -> "Nd"
    [] OTHER -> ""

\* unicode.Is(table, rune)
TableSet(name) ==
  CASE name = "alpha" -> UpperSet \cup LowerSet
    [] name = "digit" -> DigitSet
    [] name = "punct" -> PunctSet
    [] name = "space" -> SpaceSet
    [] name = "upper" -> UpperSet
    [] name = "lower" -> LowerSet
    [] name = "alnum" -> DigitSet \cup UpperSet \cup LowerSet
    [] name = "perl_d" -> DigitSet
    [] name = "perl_s" -> SpaceSet \ {11}
    [] name = "perl_w" -> WordSet
    [] name = "L" -> UpperSet \cup LowerSet
    [] name = "Lu" -> UpperSet
    [] name = "Ll" -> LowerSet
    [] name = "N" -> DigitSet \cup {ArabicIndicThree}
    [] name = "Nd" -> DigitSet \cup {ArabicIndicThree}
    [] OTHER -> {}

\* matchUnicodeClass(class): the union of the tables found, NoFilter when
\* there is none.  A one-character class stands for every category whose key
\* starts with it.
matchUnicodeClass(class) ==
  LET keys == IF Len(class) = 1
                THEN {k \in UnicodeKeys : k[1] = class[1]}
                ELSE {k \in UnicodeKeys : k = class}
  IN IF keys = {} THEN NoFilter ELSE FilterTable(UnicodeKeyName(class))

RECURSIVE Filter(_, _)
\* r(rune), for a RuneFilter r.
Filter(r, rune) ==
  CASE r.k = "rune" -> rune = r.a
    [] r.k = "range" -> rune >= r.a /\ rune <= r.b
    [] r.k = "any" -> TRUE
    [] r.k = "notnl" -> rune # 10
    [] r.k = "table" -> rune \in TableSet(r.name)
    [] r.k = "union" -> \E i \in 1..Len(r.fs) : Filter(r.fs[i], rune)
    [] r.k = "not" -> ~Filter(r.fs[1], rune)
    [] r.k = "icase" ->
         Filter(r.fs[1], ToLower(rune)) \/ Filter(r.fs[1], ToUpper(rune))
    [] OTHER -> FALSE

(***************************************************************************)
(* strconv.                                                                *)
(***************************************************************************)
\* The value of a digit in a base up to 16, -1 when it is none.
DigitVal(c) ==
  IF IsDigit(c) THEN c - ord["0"]
  ELSE IF c >= ord["a"] /\ c <= ord["f"] THEN c - ord["a"] + 10
  ELSE IF c >= ord["A"] /\ c <= ord["F"] THEN c - ord["A"] + 10
  ELSE -1

RECURSIVE DigitsVal(_, _, _)
\* The number a string of valid digits writes in a base, after acc.
DigitsVal(str, base, acc) ==
  IF str = <<>> THEN acc
  ELSE DigitsVal(Tail(str), base, acc * base + DigitVal(Head(str)))

\* strconv.Btoui64(str, base): [ok, n]; n is 0 on a syntax error.
Btoui64(str, base) ==
  IF str # <<>> /\ \A i \in 1..Len(str) :
                      DigitVal(str[i]) >= 0 /\ DigitVal(str[i]) < base
    THEN [ok |-> TRUE, n |-> DigitsVal(str, base, 0)]
    ELSE [ok |-> FALSE, n |-> 0]

\* strconv.Atoi(str): an optional sign and decimal digits; 0 on a syntax
\* error (closure() drops the error).
Atoi(str) ==
  LET signed == str # <<>> /\ Head(str) \in {ord["+"], ord["-"]}
      body == IF signed THEN Tail(str) ELSE str
      r == Btoui64(body, 10)
  IN IF ~r.ok THEN 0
     ELSE IF signed /\ Head(str) = ord["-"] THEN 0 - r.n ELSE r.n

\* strings.SplitN(raw, ",", 2)
SplitComma(raw) ==
  LET hit == IndexFrom(raw, <<ord[","]>>, 1) IN
  IF hit = 0 THEN <<raw>>
  ELSE <<SubSeq(raw, 1, hit - 1), SubSeq(raw, hit + 1, Len(raw))>>

(***************************************************************************)
(* The parser.  Every operator takes the parser state p and gives back the *)
(* state after the call with the call's results; once p.status is not "ok" *)
(* the parse is over and the state is handed back as it is.                *)
(***************************************************************************)
\* ESCAPES[c], 0 when c is no key.
Escapes(c) ==
  CASE c = ord["a"] -> 7
    [] c = ord["t"] -> 9
    [] c = ord["n"] -> 10
    [] c = ord["v"] -> 11
    [] c = ord["f"] -> 12
    [] c = ord["r"] -> 13
    [] OTHER -> 0

RECURSIVE Class(_, _)
RECURSIVE Term(_)
RECURSIVE Alt(_, _, _)
RECURSIVE Closure(_)
RECURSIVE Regexp(_)

\* The index p.instr() gives the instruction it makes next.
NextIndex(p) == Len(p.prog)

RECURSIVE OctLoop(_, _, _)
\* The loop of single_rune() that reads up to three octal digits: [p, lit].
OctLoop(p, oct, i) ==
  IF i >= 3 THEN [p |-> p, lit |-> oct]
  ELSE IF ~IsDigit(Curr(NextCh(p)))
    THEN [p |-> NextCh(p), lit |-> Append(oct, Curr(p))]
  ELSE OctLoop(NextCh(p), Append(oct, Curr(p)), i + 1)

\* The digits single_rune() reads after \x, in braces or two of them:
\* [p, lit].
HexDigits(p) ==
  IF Curr(p) = ord["{"] THEN Literal(p, S(<<"{">>), S(<<"}">>))
  ELSE [p |-> NextCh(NextCh(p)), lit |-> <<Curr(p), Curr(NextCh(p))>>]

\* The rune single_rune() returns for the digits d = [p, lit] in a base:
\* [p, rune].
DigitsRune(d, n, msg) ==
  IF d.p.status # "ok" THEN [p |-> d.p, rune |-> 0]
  ELSE IF ~n.ok THEN [p |-> Panic(d.p, msg), rune |-> 0]
  ELSE [p |-> d.p, rune |-> n.n]

HexRune(d) == DigitsRune(d, Btoui64(d.lit, 16), "couldn't parse hex")

OctRune(d) == DigitsRune(d, Btoui64(d.lit, 8), "couldn't parse oct")

\* p.single_rune(): [p, rune]
SingleRune(p) ==
  CASE Curr(p) # ord["\\"] -> [p |-> NextCh(p), rune |-> Curr(p)]
    [] Peek(p) = ord["x"] -> HexRune(HexDigits(NextCh(NextCh(p))))
    [] Escapes(Peek(p)) # 0 ->
         [p |-> NextCh(NextCh(p)), rune |-> Escapes(Peek(p))]
    [] Peek(p) \in PunctSet -> [p |-> NextCh(NextCh(p)), rune |-> Peek(p)]
    [] IsDigit(Peek(p)) -> OctRune(OctLoop(NextCh(p), <<>>, 0))
    [] OTHER -> [p |-> Panic(p, "not a valid escape sequence"), rune |-> 0]

RECURSIVE BracketLoop(_, _)
\* One turn of the loop of class() over the terms of a [...] block, r the
\* result of class(true) on the state p.  An iteration that leaves the
\* cursor where it was (class(true) at the end of the input reads EOF as a
\* rune and does not move) repeats for ever: the loop condition reads the
\* cursor only.
BracketTerm(p, filters, r) ==
  CASE r.p.status # "ok" -> [p |-> r.p, filters |-> filters]
    [] r.p.src = p.src ->
         [p |-> Hang(r.p, "class: for p.src.curr() != ']'"),
          filters |-> filters]
    [] OTHER -> BracketLoop(r.p, Append(filters, r.filter))

\* The loop of class() over the terms of a [...] block: [p, filters].
BracketLoop(p, filters) ==
  IF Curr(p) = ord["]"] THEN [p |-> p, filters |-> filters]
  ELSE BracketTerm(p, filters, Class(p, TRUE))

\* What the switch of class() leaves when no case made a filter.
NoClass(p) == [p |-> p, filter |-> NoFilter, negate |-> FALSE]

\* The case [:name:] of class(), l the name read.
PosixClass(l) ==
  LET neg == l.lit # <<>> /\ l.lit[1] = ord["^"]
      name == IF l.lit # <<>> /\ l.lit[1] = ord["^"] THEN Tail(l.lit)
                                                      ELSE l.lit
  IN CASE l.p.status # "ok" -> NoClass(l.p)
       [] l.lit = <<>> -> NoClass(Crash(l.p, "name[0]: index out of range"))
       [] PosixName(name) = "" ->
            [p |-> Panic(l.p, "could not identify ascii/posix class"),
             filter |-> NoFilter, negate |-> neg]
       [] OTHER ->
            [p |-> l.p, filter |-> FilterTable(PosixName(name)),
             negate |-> neg]

\* The case [...] of class(), b the result of the loop over its terms.
BracketClass(neg, b) ==
  IF b.p.status # "ok" THEN NoClass(b.p)
  ELSE [p |-> NextCh(b.p), filter |-> FilterUnion(b.filters), negate |-> neg]

\* The name class() reads after \p or \P, in braces or one character:
\* [p, lit].
UnicodeName(p) ==
  IF Curr(p) = ord["{"] THEN Literal(p, S(<<"{">>), S(<<"}">>))
  ELSE [p |-> NextCh(p), lit |-> <<Curr(p)>>]

\* The case \p, \P of class(), u the name read.
UnicodeClass(neg, u) ==
  CASE u.p.status # "ok" -> NoClass(u.p)
    [] matchUnicodeClass(u.lit) = NoFilter ->
         [p |-> Panic(u.p, "could not identify unicode class"),
          filter |-> NoFilter, negate |-> neg]
    [] OTHER ->
         [p |-> u.p, filter |-> matchUnicodeClass(u.lit), negate |-> neg]

\* The switch of class(): [p, filter, negate]; filter is NoFilter when no
\* case made one.
ClassSwitch(p, within_class) ==
  LET c == Curr(p)
      p1 == NextCh(p)
  IN CASE c = ord["."] ->
            [p |-> p1,
             filter |-> IF Flag(p, ord["s"]) THEN FilterAny
                                             ELSE FilterNotNewline,
             negate |-> FALSE]
       [] c = ord["["] /\ Peek(p) = ord[":"] ->
            PosixClass(Literal(p, S(<<"[", ":">>), S(<<":", "]">>)))
       [] c = ord["["] /\ within_class ->
            NoClass(Panic(p, "can't match a [...] class within another class"))
       [] c = ord["["] ->
            BracketClass(Curr(p1) = ord["^"],
                         BracketLoop(IF Curr(p1) = ord["^"] THEN NextCh(p1)
                                                            ELSE p1, <<>>))
       [] c = ord["\\"] /\ Peek(p) \in {ord["p"], ord["P"]} ->
            UnicodeClass(Curr(p1) = ord["P"], UnicodeName(NextCh(p1)))
       [] c = ord["\\"] /\ PerlName(ToLower(Peek(p))) # "" ->
            [p |-> NextCh(p1),
             filter |-> FilterTable(PerlName(ToLower(Peek(p)))),
             negate |-> IsAsciiUpper(Peek(p))]
       [] OTHER -> NoClass(p)

\* The filter class() returns for f under the negation its switch read.
Negated(negate, f) == IF negate THEN FilterNot(f) ELSE f

\* What class() leaves when it panics.
NoRune(p) == [p |-> p, filter |-> NoFilter]

\* The range lo-hi of class(), hi the result of the second single_rune().
RuneRange(negate, lo, hi) ==
  CASE hi.p.status # "ok" -> NoRune(hi.p)
    [] hi.rune < lo.rune -> NoRune(Panic(hi.p, "unexpected range"))
    [] OTHER ->
         [p |-> hi.p,
          filter |-> Negated(negate, matchRuneRange(lo.rune, hi.rune))]

\* A single rune literal of class(), or a range (when inside a character
\* class), lo the result of single_rune().
RuneOrRange(within_class, negate, lo) ==
  CASE lo.p.status # "ok" -> NoRune(lo.p)
    [] Curr(lo.p) # ord["-"] ->
         [p |-> lo.p, filter |-> Negated(negate, matchRune(lo.rune))]
    [] ~within_class ->
         NoRune(Panic(lo.p, "can't match a range outside class"))
    [] OTHER -> RuneRange(negate, lo, SingleRune(NextCh(lo.p)))

\* class() after its switch, s the result of the switch.
ClassFilter(within_class, s) ==
  CASE s.p.status # "ok" -> NoRune(s.p)
    [] s.filter = NoFilter ->
         RuneOrRange(within_class, s.negate, SingleRune(s.p))
    [] OTHER -> [p |-> s.p, filter |-> Negated(s.negate, s.filter)]

\* p.class(within_class): [p, filter]
Class(p, within_class) == ClassFilter(within_class, ClassSwitch(p, within_class))

\* p.makeBoundaryInstr(mode): the new instruction is the last of the program.
MakeBoundaryInstr(p, mode) ==
  [NewInstr(p) EXCEPT !.prog[NextIndex(p) + 1].mode = "iBoundaryCase",
                      !.prog[NextIndex(p) + 1].lr = mode]

\* The test term() makes of a flag character before it panics with "flag not
\* in range".
FlagNotInRange(c) == c < 64 /\ c > 127

\* The flags after a flag character is applied.
ApplyFlag(flags, c, set) ==
  IF set THEN flags \cup FlagBits(c) ELSE flags \ FlagBits(c)

RECURSIVE FlagLoop(_, _)
\* One turn of the loop of term() over the flags, p1 the state after the
\* flag at the cursor of p is applied and stepped over.  An iteration that
\* leaves the cursor, the flags and set as they were repeats for ever.
FlagStep(p, p1, set) ==
  IF p1 = p
    THEN [p |-> Hang(p, "term: for { switch p.src.curr() }"),
          only |-> FALSE, start |-> Nil]
    ELSE FlagLoop(p1, set)

\* The loop of term() over the flags of (?flags) or (?flags:...):
\* [p, only, start]; only tells that ')' ended the flags, and start is then
\* the no-op instruction made for the group.
FlagLoop(p, set) ==
  LET c == Curr(p) IN
  CASE c = ord[":"] -> [p |-> NextCh(p), only |-> FALSE, start |-> Nil]
    [] c = ord[")"] ->
         [p |-> NewInstr(NextCh(p)), only |-> TRUE, start |-> NextIndex(p)]
    [] c = ord["-"] -> FlagLoop(NextCh(p), FALSE)
    [] FlagNotInRange(c) ->
         [p |-> Panic(p, "flag not in range"), only |-> FALSE, start |-> Nil]
    [] OTHER ->
         FlagStep(p, NextCh([p EXCEPT !.flags = ApplyFlag(@, c, set)]), set)

\* A term() that leaves the flags of the group's body in effect after it.
RestoreFlags_Keep(p, old_flags) == p

\* The flags term() leaves after a group with a body: p.flags = old_flags.
RestoreFlags(p, old_flags) == [p EXCEPT !.flags = old_flags]

\* What the deferred function of alt() leaves: p.flags = old_flags.
AltDeferred(p, old_flags) == [p EXCEPT !.flags = old_flags]

\* A result of term(), closure() or regexp() that ends the parse.
Stop(p) == [p |-> p, start |-> Nil, end |-> Nil]

RECURSIVE AltLoop(_, _, _)
\* The loop of alt() after a branch is wired: the next turn.
AltNext(p, start, end) ==
  IF p.status # "ok" THEN [p |-> p, start |-> start] ELSE AltLoop(p, start, end)

\* The loop of alt() after the regexp() of a branch, r its result.
AltBranch(r, start, end) ==
  IF r.p.status # "ok" THEN [p |-> r.p, start |-> start]
  ELSE AltNext(Out(Out(r.p, start, r.start), r.end, end), start, end)

\* The loop of alt() after the Split of a branch is made and wired.
AltSplit(p, start, end) ==
  IF p.status # "ok" THEN [p |-> p, start |-> start]
  ELSE AltBranch(Regexp(NextCh(p)), start, end)

\* The loop of alt() over the branches after the first: [p, start].
AltLoop(p, b_start, end) ==
  IF Curr(p) # ord["|"] THEN [p |-> p, start |-> b_start]
  ELSE AltSplit(Out(NewInstr(p), NextIndex(p), b_start), NextIndex(p), end)

\* What alt() returns from the state p, its deferred function run.
AltReturn(p, old_flags, alt_begin, end) ==
  [p |-> AltDeferred(p, old_flags), start |-> alt_begin, end |-> end]

\* alt() after its loop, l the result of the loop.
AltEnd(l, old_flags, alt_begin, end) ==
  CASE l.p.status # "ok" -> AltReturn(l.p, old_flags, alt_begin, end)
    [] Curr(l.p) # ord[")"] ->
         AltReturn(Panic(l.p, "alt must end with ')'"), old_flags, alt_begin,
                   end)
    [] OTHER ->
         AltReturn(Out(l.p, alt_begin, l.start), old_flags, alt_begin, end)

\* alt() after the regexp() of the first branch, r its result.
AltFirst(r, old_flags, alt_begin, end) ==
  CASE r.p.status # "ok" -> AltReturn(r.p, old_flags, alt_begin, end)
    [] Out(r.p, r.end, end).status # "ok" ->
         AltReturn(Out(r.p, r.end, end), old_flags, alt_begin, end)
    [] OTHER ->
         AltEnd(AltLoop(Out(r.p, r.end, end), r.start, end), old_flags,
                alt_begin, end)

\* The two instructions alt() starts with, made capture instructions when the
\* group captures.
AltInstrs(p, end, alt_begin, cname, capture) ==
  IF capture
    THEN [p EXCEPT !.prog[alt_begin + 1].mode = "iIndexCap",
                   !.prog[alt_begin + 1].cid = p.caps * 2,
                   !.prog[alt_begin + 1].cname = cname,
                   !.prog[end + 1].mode = "iIndexCap",
                   !.prog[end + 1].cid = p.caps * 2 + 1,
                   !.prog[end + 1].cname = cname,
                   !.caps = @ + 1]
    ELSE p

\* p.alt(cname, capture)
Alt(p, cname, capture) ==
  AltFirst(Regexp(AltInstrs(NewInstr(NewInstr(p)), NextIndex(p),
                                NextIndex(p) + 1, cname, capture)),
           p.flags, NextIndex(p) + 1, NextIndex(p))

\* term() at the end of a group, p3 the state with the flags restored.
GroupReturn(p, a, p3) ==
  [p |-> [p3 EXCEPT !.groups =
            Append(@, [at |-> p.src.pos, before |-> p.flags,
                       after |-> p3.flags])],
   start |-> a.start, end |-> a.end]

\* term() after the alt() of a group, a its result; p is the state term()
\* started in.
GroupEnd(p, a) ==
  CASE a.p.status # "ok" -> Stop(a.p)
    [] Curr(a.p) # ord[")"] ->
         Stop(Panic(a.p, "alt should finish on end bracket"))
    [] OTHER -> GroupReturn(p, a, RestoreFlags(NextCh(a.p), p.flags))

\* term() for (?P<name>...), named the name read.
NamedGroup(p, named) ==
  IF named.p.status # "ok" THEN Stop(named.p)
  ELSE GroupEnd(p, Alt(named.p, named.lit, TRUE))

\* term() for (?flags) and (?flags:...), fl the result of the loop over the
\* flags.
FlagGroup(p, fl) ==
  CASE fl.p.status # "ok" -> Stop(fl.p)
    [] fl.only -> [p |-> fl.p, start |-> fl.start, end |-> fl.start]
    [] OTHER -> GroupEnd(p, Alt(fl.p, <<>>, FALSE))

\* The part of term() for a bracketed expression, the cursor on '('.
TermGroup(p) ==
  CASE Curr(NextCh(p)) # ord["?"] ->
         GroupEnd(p, Alt(NextCh(p), <<>>, TRUE))
    [] Curr(NextCh(NextCh(p))) = ord["P"] ->
         NamedGroup(p, Literal(NextCh(NextCh(NextCh(p))), S(<<"<">>),
                               S(<<">">>)))
    [] OTHER -> FlagGroup(p, FlagLoop(NextCh(NextCh(p)), TRUE))

RECURSIVE QuoteLoop(_, _, _)
\* The loop of term() over the runes of \Q...\E: one iRuneClass instruction
\* per rune; [p, end].
QuoteLoop(p, literal, end) ==
  IF literal = <<>> \/ p.status # "ok" THEN [p |-> p, end |-> end]
  ELSE QuoteLoop(Out([NewInstr(p) EXCEPT
                        !.prog[NextIndex(p) + 1].mode = "iRuneClass",
                        !.prog[NextIndex(p) + 1].rune =
                           matchRune(Head(literal))],
                     end, NextIndex(p)),
                 Tail(literal), NextIndex(p))

\* term() after the loop over the runes of \Q...\E, q its result.
QuoteEnd(q, start) ==
  IF q.p.status # "ok" THEN Stop(q.p)
  ELSE [p |-> q.p, start |-> start, end |-> q.end]

\* term() for \Q...\E, l the text read.
QuoteInstrs(l) ==
  IF l.p.status # "ok" THEN Stop(l.p)
  ELSE QuoteEnd(QuoteLoop(NewInstr(l.p), l.lit, NextIndex(l.p)),
                NextIndex(l.p))

\* The part of term() for \Q...\E.
TermQuote(p) == QuoteInstrs(Literal(p, S(<<"\\", "Q">>), S(<<"\\", "E">>)))

\* term() after class(), cl its result: the instruction start is made a
\* iRuneClass of the filter, case-insensitive under flag i.
ClassInstr(p, cl, start) ==
  IF cl.p.status # "ok" THEN Stop(cl.p)
  ELSE [p |-> [cl.p EXCEPT
                 !.prog[start + 1].mode = "iRuneClass",
                 !.prog[start + 1].rune =
                    IF Flag(cl.p, ord["i"]) THEN FilterIgnoreCase(cl.filter)
                                            ELSE cl.filter,
                 !.classes = Append(@, [at |-> p.src.pos, instr |-> start,
                                        flags |-> cl.p.flags])],
        start |-> start, end |-> start]

\* The part of term() that consumes a rune class.
TermClass(p) == ClassInstr(p, Class(NewInstr(p), FALSE), NextIndex(p))

\* term() for a boundary: [p, start, end].
TermBoundary(p, mode) ==
  [p |-> MakeBoundaryInstr(p, mode), start |-> NextIndex(p),
   end |-> NextIndex(p)]

\* p.term()
Term(p) ==
  LET c == Curr(p)
      esc == IF Curr(p) = ord["\\"] THEN Peek(p) ELSE EOF
  IN CASE c = EOF -> Stop(Panic(p, "EOF in term"))
       [] c \in {ord["*"], ord["+"], ord["{"], ord["?"]} ->
            Stop(Panic(p, "unexpected expansion char"))
       [] c \in {ord[")"], ord["}"], ord["]"]} ->
            Stop(Panic(p, "unexpected close element"))
       [] c = ord["("] -> TermGroup(p)
       [] c = ord["$"] ->
            TermBoundary(NextCh(p),
                         IF Flag(p, ord["m"]) THEN "bEndLine" ELSE "bEndText")
       [] c = ord["^"] ->
            TermBoundary(NextCh(p),
                         IF Flag(p, ord["m"]) THEN "bBeginLine"
                                              ELSE "bBeginText")
       [] esc = ord["Q"] -> TermQuote(p)
       [] esc = ord["A"] ->
            TermBoundary(Consume(p, S(<<"\\", "A">>)), "bBeginText")
       [] esc = ord["z"] ->
            TermBoundary(Consume(p, S(<<"\\", "z">>)), "bEndText")
       [] esc = ord["b"] ->
            TermBoundary(Consume(p, S(<<"\\", "b">>)), "bWordBoundary")
       [] esc = ord["B"] ->
            TermBoundary(Consume(p, S(<<"\\", "B">>)), "bNotWordBoundary")
       [] OTHER -> TermClass(p)

\* safe_term() after its term(), t the result.
TermAgain(l, t) == [l EXCEPT !.p = t.p, !.t_start = t.start, !.t_end = t.end]

\* A safe_term() that parses the term again without taking the count of
\* groups back.
SafeTerm_KeepCaps(l, src, alt) ==
  IF l.first THEN [l EXCEPT !.first = FALSE]
  ELSE TermAgain(l, Term([l.p EXCEPT !.src = src]))

\* p.safe_term(src, alt, first, start, end), on the loop state
\* l = [p, first, t_start, t_end, end] of closure().
SafeTerm(l, src, alt) ==
  IF l.first THEN [l EXCEPT !.first = FALSE]
  ELSE TermAgain(l, Term([l.p EXCEPT !.src = src, !.caps = alt]))

\* A closure() that does not look at the flag 'U'.
GreedyDefault_Always(p) == TRUE

\* The default of closure(): greedy unless 'U' is flagged.
GreedyDefault(p) == ~Flag(p, ord["U"])

\* The edge of a new helper that closure() gives the optional step: out when
\* greedy, out1 when not.
WireHelper(p, helper, t_start, greedy) ==
  IF p.status # "ok" THEN p
  ELSE IF greedy THEN [p EXCEPT !.prog[helper + 1].out = t_start]
  ELSE [p EXCEPT !.prog[helper + 1].out1 = t_start]

\* What closure() did for one helper, for the properties: k tells where the
\* closure starts and whether it is greedy.
NoteHelper(p, helper, t_start, k) ==
  IF p.status # "ok" THEN p
  ELSE [p EXCEPT !.closures =
          Append(@, [helper |-> helper, term |-> t_start,
                     greedy |-> k.greedy, at |-> k.revert.pos])]

RECURSIVE ReqLoop(_, _, _, _)
\* One turn of the loop of closure() over the required steps, l1 the loop
\* state after safe_term().
ReqStep(l1, i, req, k) ==
  IF l1.p.status # "ok" THEN l1
  ELSE ReqLoop([l1 EXCEPT !.p = Out(l1.p, l1.end, l1.t_start),
                          !.end = l1.t_end],
               i + 1, req, k)

\* The loop of closure() over the required steps; k holds revert and
\* revert_alts.
ReqLoop(l, i, req, k) ==
  IF i >= req \/ l.p.status # "ok" THEN l
  ELSE ReqStep(SafeTerm(l, k.revert, k.revert_alts), i, req, k)

RECURSIVE OptLoop(_, _, _, _, _)
\* One turn of the loop of closure() over the optional steps, l1 the loop
\* state after safe_term(): the helper and the next end are made and wired.
OptStep(l1, i, opt, real_end, k) ==
  LET helper == NextIndex(l1.p)
      p3 == Out(WireHelper(Out(NewInstr(l1.p), l1.end, NextIndex(l1.p)),
                           NextIndex(l1.p), l1.t_start, k.greedy),
                NextIndex(l1.p), real_end)
  IN CASE l1.p.status # "ok" -> l1
       [] p3.status # "ok" -> [l1 EXCEPT !.p = p3]
       [] OTHER ->
            OptLoop([l1 EXCEPT
                       !.p = NoteHelper(Out(NewInstr(p3), l1.t_end,
                                            helper + 1),
                                        helper, l1.t_start, k),
                       !.end = helper + 1],
                    i + 1, opt, real_end, k)

\* The loop of closure() over the optional steps of a bounded repetition.
OptLoop(l, i, opt, real_end, k) ==
  IF i >= opt \/ l.p.status # "ok" THEN l
  ELSE OptStep(SafeTerm(l, k.revert, k.revert_alts), i, opt, real_end, k)

\* A closure() that reads {n,x} as n required and x optional steps.
ReqOpt_Additive(req, x) == [req |-> req, opt |-> x, bad |-> x < 0]

\* The bounds closure() makes of {n,x}: opt -= req; bad tells that it
\* panics with "{n,x}: x must be greater or equal to n".
ReqOpt(req, x) == [req |-> req, opt |-> x - req, bad |-> x - req < 0]

\* The bounds closure() reads from the parts of {...}: [req, opt, bad].
PartsBounds(parts) ==
  CASE Len(parts) = 2 /\ Len(parts[2]) > 0 ->
         ReqOpt(Atoi(parts[1]), Atoi(parts[2]))
    [] Len(parts) = 2 -> [req |-> Atoi(parts[1]), opt |-> -1, bad |-> FALSE]
    [] OTHER -> [req |-> Atoi(parts[1]), opt |-> 0, bad |-> FALSE]

\* The bounds closure() reads from the text of {...}.
Bounds(raw) == PartsBounds(SplitComma(raw))

\* The case '{' of closure() once the bounds are read: [p, req, opt].
BraceBounds(p, b) ==
  IF b.bad
    THEN [p |-> Panic(p, "{n,x}: x must be greater or equal to n"),
          req |-> b.req, opt |-> b.opt]
    ELSE [p |-> p, req |-> b.req, opt |-> b.opt]

\* The case '{' of closure(), lit the text read between the braces.
Braces(lit) ==
  IF lit.p.status # "ok" THEN [p |-> lit.p, req |-> 0, opt |-> 0]
  ELSE BraceBounds(lit.p, Bounds(lit.lit))

\* The switch of closure() on the repetition character: [p, req, opt].
Quantifier(p) ==
  LET c == Curr(p) IN
  CASE c = ord["?"] -> [p |-> NextCh(p), req |-> 0, opt |-> 1]
    [] c = ord["*"] -> [p |-> NextCh(p), req |-> 0, opt |-> -1]
    [] c = ord["+"] -> [p |-> NextCh(p), req |-> 1, opt |-> -1]
    [] OTHER -> Braces(Literal(p, S(<<"{">>), S(<<"}">>)))

\* The test closure() makes before it panics with "invalid req/opt
\* combination".
InvalidReqOpt(req, opt) == req < 0 \/ opt < -1 \/ (req = 0 /\ opt = 0)

\* What closure() returns: p.src = end_src.
ClosureReturn(p, k, end) ==
  IF p.status # "ok" THEN Stop(p)
  ELSE [p |-> [p EXCEPT !.src = k.end_src], start |-> k.start, end |-> end]

\* closure() for opt == -1: one helper that loops back to the term; l is the
\* loop state after the required steps.
Unbounded(l, k) ==
  LET helper == NextIndex(l.p)
      p3 == WireHelper(Out(NewInstr(l.p), l.end, NextIndex(l.p)),
                       NextIndex(l.p), l.t_start, k.greedy)
  IN ClosureReturn(NoteHelper(IF l.end # l.t_end
                                THEN Out(p3, l.t_end, helper) ELSE p3,
                              helper, l.t_start, k),
                   k, helper)

\* closure() for a bounded number of optional steps, l2 the loop state after
\* them.
BoundedEnd(l2, real_end, k) ==
  IF l2.p.status # "ok" THEN Stop(l2.p)
  ELSE ClosureReturn(Out(l2.p, l2.end, real_end), k, real_end)

\* closure() after the required steps, l their loop state.
Optional(l, opt, k) ==
  CASE l.p.status # "ok" -> Stop(l.p)
    [] opt = -1 -> Unbounded(l, k)
    [] OTHER ->
         BoundedEnd(OptLoop([l EXCEPT !.p = NewInstr(l.p)], 0, opt,
                            NextIndex(l.p), k),
                    NextIndex(l.p), k)

\* closure() after the switch on the repetition character, q its result and
\* t the term: the trailing '?' and the steps.
Repetition(p, t, q) ==
  LET qmark == Curr(q.p) = ord["?"]
      p2 == IF Curr(q.p) = ord["?"] THEN NextCh(q.p) ELSE q.p
      k == [revert |-> p.src, revert_alts |-> p.caps, start |-> NextIndex(p),
            greedy |-> IF qmark THEN ~GreedyDefault(t.p)
                                ELSE GreedyDefault(t.p),
            end_src |-> (IF qmark THEN NextCh(q.p) ELSE q.p).src]
  IN CASE q.p.status # "ok" -> Stop(q.p)
       [] InvalidReqOpt(q.req, q.opt) ->
            Stop(Panic(p2, "invalid req/opt combination"))
       [] OTHER ->
            Optional(ReqLoop([p |-> p2, first |-> TRUE, t_start |-> t.start,
                              t_end |-> t.end, end |-> NextIndex(p)],
                             0, q.req, k),
                     q.opt, k)

\* closure() after its term(), t the result.
Repeated(p, t) ==
  CASE t.p.status # "ok" -> Stop(t.p)
    [] Curr(t.p) \notin {ord["?"], ord["*"], ord["+"], ord["{"]} ->
         [p |-> t.p, start |-> t.start, end |-> t.end]
    [] OTHER -> Repetition(p, t, Quantifier(t.p))

\* p.closure()
Closure(p) == Repeated(p, Term(NewInstr(p)))

RECURSIVE RegexpLoop(_, _)
\* One turn of the loop of regexp(), r the result of closure().
RegexpStep(r, curr) ==
  CASE r.p.status # "ok" -> [p |-> r.p, curr |-> curr]
    [] Out(r.p, curr, r.start).status # "ok" ->
         [p |-> Out(r.p, curr, r.start), curr |-> curr]
    [] OTHER -> RegexpLoop(Out(r.p, curr, r.start), r.end)

\* The loop of regexp() over the closures: [p, curr].
RegexpLoop(p, curr) ==
  IF Curr(p) \in {EOF, ord["|"], ord[")"]} THEN [p |-> p, curr |-> curr]
  ELSE RegexpStep(Closure(p), curr)

\* regexp() after its loop, l the result of the loop.
RegexpEnd(l, start) ==
  IF l.p.status # "ok" THEN Stop(l.p)
  ELSE [p |-> Out(NewInstr(l.p), l.curr, NextIndex(l.p)), start |-> start,
        end |-> NextIndex(l.p)]

\* p.regexp()
Regexp(p) == RegexpEnd(RegexpLoop(NewInstr(p), NextIndex(p)), NextIndex(p))

(***************************************************************************)
(* cleanup().  The instructions are Go objects reached through pointers:   *)
(* heap is the sequence of all the instructions the parser made (a pointer *)
(* is a 0-based position of heap, and stays one when the instruction       *)
(* leaves the program), and slots is the slice prog: slots[i + 1] is the   *)
(* pointer kept at prog[i], Nil for a nil entry.                           *)
(***************************************************************************)
\* TLC evaluates the argument of an operator when it is first read, which
\* may be deep inside the operator; Done(v) has v evaluated on the spot.
Done(v) == v = v

RECURSIVE For(_, _, _, _)
\* for i := lo; i < hi; i++ { st = Body(st, i) }: the state after the loop.
\* The range is run in two halves, one after the other.
For(Body(_, _), lo, hi, st) ==
  IF hi <= lo THEN st
  ELSE IF hi = lo + 1 THEN Body(st, lo)
  ELSE LET mid == (lo + hi) \div 2
           s1 == For(Body, lo, mid, st)
       IN IF Done(s1) THEN For(Body, mid, hi, s1) ELSE s1

RECURSIVE Fn(_, _, _)
\* The second half of fn: if fn(ci.out1) { ci.out1 = nil }; return false.
FnOut1(heap, states, ci) ==
  LET r2 == Fn(heap, states, At(heap, ci).out1) IN
  [heap |-> IF r2.found THEN [r2.heap EXCEPT ![ci + 1].out1 = Nil]
                        ELSE r2.heap,
   states |-> r2.states, found |-> FALSE]

\* The closure fn of cleanup(): [heap, states, found].
Fn(heap, states, ci) ==
  LET r1 == Fn(heap, states \cup {At(heap, ci).idx}, At(heap, ci).out)
      none == [heap |-> heap, states |-> states, found |-> FALSE]
  IN CASE ci = Nil -> none
       [] At(heap, ci).mode # "iSplit" -> none
       [] At(heap, ci).idx \in states -> [none EXCEPT !.found = TRUE]
       [] r1.found ->
            FnOut1([r1.heap EXCEPT ![ci + 1].out = Nil], r1.states, ci)
       [] OTHER -> FnOut1(r1.heap, r1.states, ci)

\* The first loop of cleanup(): fn from every instruction but the first.
BreakCycles(heap) ==
  For(LAMBDA h, i : Fn(h, {}, i).heap, 1, Len(heap), heap)

\* Whether the second loop of cleanup() removes the instruction pi.
SingleSplit(pi) ==
  pi.mode = "iSplit" /\ (pi.out1 = Nil \/ pi.out = pi.out1)

\* The body of the inner loop of cleanup(), on c = [heap, slots]: an edge to
\* pi of prog[j], when prog[j] is still in the program, is turned to pi.out.
Bypass(c, pi, j) ==
  IF c.slots[j + 1] = Nil THEN c
  ELSE
    LET pj == c.slots[j + 1]
        h1 == IF At(c.heap, pj).out = pi
                THEN [c.heap EXCEPT ![pj + 1].out = At(c.heap, pi).out]
                ELSE c.heap
        h2 == IF At(h1, pj).out1 = pi
                THEN [h1 EXCEPT ![pj + 1].out1 = At(h1, pi).out]
                ELSE h1
    IN [c EXCEPT !.heap = h2]

\* The body of the second loop of cleanup(), on c = [heap, slots].
RemoveSingle(c, i) ==
  IF SingleSplit(At(c.heap, i))
    THEN LET c1 == For(LAMBDA d, j : Bypass(d, i, j), 0, Len(c.slots), c)
         IN [c1 EXCEPT !.slots[i + 1] = Nil]
    ELSE c

\* The slice prog as cleanup() gets it: prog[i] points to the i-th instruction.
Pointers(n) == [i \in 1..n |-> i - 1] \o <<>>

\* The second loop of cleanup(): [heap, slots].
RemoveSingles(heap) ==
  For(RemoveSingle, 1, Len(heap),
      [heap |-> heap, slots |-> Pointers(Len(heap))])

\* A third loop that moves an instruction up and leaves its index as it was.
Shift_KeepIdx(c, i) ==
  IF c.done THEN c
  ELSE IF c.slots[i + 1] # Nil THEN [c EXCEPT !.last = i]
  ELSE
    LET later == {f \in i..(Len(c.slots) - 1) : c.slots[f + 1] # Nil} IN
    IF later = {} THEN [c EXCEPT !.done = TRUE]
    ELSE
      LET found == CHOOSE f \in later : \A g \in later : f <= g
      IN [c EXCEPT !.slots = [@ EXCEPT ![i + 1] = c.slots[found + 1],
                                       ![found + 1] = Nil],
                   !.last = i]

\* The body of the third loop of cleanup(), on c = [heap, slots, last, done];
\* done tells that the loop has met its break.
Shift(c, i) ==
  IF c.done THEN c
  ELSE IF c.slots[i + 1] # Nil THEN [c EXCEPT !.last = i]
  ELSE
    LET later == {f \in i..(Len(c.slots) - 1) : c.slots[f + 1] # Nil} IN
    IF later = {} THEN [c EXCEPT !.done = TRUE]
    ELSE
      LET found == CHOOSE f \in later : \A g \in later : f <= g
          moved == c.slots[found + 1]
      IN [c EXCEPT !.heap[moved + 1].idx = i,
                   !.slots = [@ EXCEPT ![i + 1] = moved, ![found + 1] = Nil],
                   !.last = i]

\* The third loop of cleanup() and its return: [heap, prog], prog the slice
\* prog[0 : last+1].
Compact(heap, slots) ==
  LET c == For(Shift, 0, Len(slots),
               [heap |-> heap, slots |-> slots, last |-> 0, done |-> FALSE])
  IN [heap |-> c.heap, prog |-> SubSeq(c.slots, 1, c.last + 1)]

\* cleanup(prog): [heap, prog]
Cleanup(heap) ==
  LET r == RemoveSingles(BreakCycles(heap))
  IN Compact(r.heap, r.slots)

(***************************************************************************)
(* Parse().                                                                *)
(***************************************************************************)
\* p.makeDotStarOpt(): [p, begin, final]
MakeDotStarOpt(p) ==
  LET begin == NextIndex(p)
      final == NextIndex(p) + 1
      choice == NextIndex(p) + 2
      rune == NextIndex(p) + 3
      p4 == Out(Out(NewInstr(NewInstr(NewInstr(p))), begin, choice),
                choice, final)
      p6 == [NewInstr(p4) EXCEPT !.prog[rune + 1].mode = "iRuneClass",
                                 !.prog[rune + 1].rune = FilterAny]
  IN [p |-> Out(Out(p6, choice, rune), rune, choice),
      begin |-> begin, final |-> final]

\* Parse() after regexp(), r its result: the regexp is placed between prefix
\* and suffix.
Consumed(r, prefix, suffix) ==
  IF r.p.status # "ok" THEN r.p
  ELSE IF Curr(r.p) # EOF
    THEN Panic(r.p, "could not consume all of regexp!")
  ELSE Out(Out(r.p, prefix, r.start), r.end, suffix)

\* Parse() after the second makeDotStarOpt(), suf its result.
Suffixed(suf, prefix) ==
  Consumed(Regexp(NextCh([suf.p EXCEPT
                                !.prog[suf.begin + 1].mode = "iIndexCap",
                                !.prog[suf.begin + 1].cid = 1,
                                !.prog[suf.final + 1].mode = "iMatch"])),
           prefix, suf.begin)

\* Parse() after the first makeDotStarOpt(), pre its result.
Prefixed(pre) ==
  Suffixed(MakeDotStarOpt([pre.p EXCEPT
                             !.prog[pre.final + 1].mode = "iIndexCap",
                             !.prog[pre.final + 1].cid = 0]),
           pre.final)

\* The parser state when Parse() has consumed the regexp and placed it between
\* prefix and suffix, before cleanup; a state that is not "ok" when it did not
\* get there.
ParseProgram(src) == Prefixed(MakeDotStarOpt(NewParser(src)))

\* The nil Re.
NoRe == [prog |-> <<>>, heap |-> <<>>, start |-> -1, caps |-> 0]

\* The start Parse() gives the Re: the instruction after the first when that
\* one has a single edge.
StartOf(p, c, entry) ==
  IF entry.out1 = Nil THEN At(c.heap, entry.out).idx ELSE p.start

\* What Parse() returns for the parser state p, c the result of cleanup().
Returned(p, c) ==
  CASE p.status = "ok" ->
         [re |-> [prog |-> c.prog, heap |-> c.heap,
                  start |-> StartOf(p, c, At(c.heap, c.prog[1])),
                  caps |-> p.caps],
          err |-> "", outcome |-> "ok"]
    [] p.status = "panic" -> [re |-> NoRe, err |-> p.msg, outcome |-> "error"]
    [] p.status = "crash" -> [re |-> NoRe, err |-> "", outcome |-> "abort"]
    [] OTHER -> [re |-> NoRe, err |-> "", outcome |-> "hang"]

\* What Parse() returns once the parser has stopped in the state p:
\* [re, err, outcome].  outcome is "ok" (re, nil), "error" (nil and the error
\* of a recovered panic(string)), "abort" (the deferred function panics again
\* on a value that is no string: Parse does not return) or "hang" (Parse does
\* not return).
ParseResult(p) == Returned(p, Cleanup(p.prog))

\* Parse(src)
Parse(src) == ParseResult(ParseProgram(src))

\* r.NumSubexps()
NumSubexps(re) == re.caps - 1

(***************************************************************************)
(* The execution engine: all live threads are advanced one code point at a *)
(* time.  A thread is [pc, caps]: a pointer to a consuming or accepting    *)
(* instruction and the capture offsets of the path that led there.  A list *)
(* of threads is kept in priority order.                                   *)
(***************************************************************************)
\* s.match(rune)
InstrMatch(s, rune) == s.mode = "iRuneClass" /\ Filter(s.rune, rune)

\* A matchBoundaryMode() for which a word boundary is a word character next
\* to anything that is none, the edges of the text included.
MatchBoundaryMode_NonWord(s, left, right) ==
  LET wb == (left \in TableSet("perl_w")) # (right \in TableSet("perl_w"))
  IN /\ s.mode = "iBoundaryCase"
     /\ CASE s.lr = "bBeginText" -> left = -1
          [] s.lr = "bBeginLine" -> left = -1 \/ left = 10
          [] s.lr = "bEndText" -> right = -1
          [] s.lr = "bEndLine" -> right = -1 \/ right = 10
          [] s.lr = "bWordBoundary" -> wb
          [] s.lr = "bNotWordBoundary" -> ~wb
          [] OTHER -> FALSE

\* s.matchBoundaryMode(left, right)
MatchBoundaryMode(s, left, right) ==
  LET wb == \/ (left \in TableSet("perl_w") /\ right \in TableSet("perl_s"))
            \/ (left \in TableSet("perl_s") /\ right \in TableSet("perl_w"))
  IN /\ s.mode = "iBoundaryCase"
     /\ CASE s.lr = "bBeginText" -> left = -1
          [] s.lr = "bBeginLine" -> left = -1 \/ left = 10
          [] s.lr = "bEndText" -> right = -1
          [] s.lr = "bEndLine" -> right = -1 \/ right = 10
          [] s.lr = "bWordBoundary" -> wb
          [] s.lr = "bNotWordBoundary" -> ~wb
          [] OTHER -> FALSE

\* The code points left and right of an offset, -1 at the text edges.
LeftOf(input, pos) == IF pos >= 1 THEN input[pos] ELSE -1
RightOf(input, pos) == IF pos < Len(input) THEN input[pos + 1] ELSE -1

RECURSIVE AddThread(_, _, _, _, _, _)
\* The depth-first expansion from pc through the non-consuming instructions,
\* primary edge before alternate edge; acc is [list, seen], and an instruction
\* already seen in this step is not entered again.
AddThread(re, input, pos, acc, pc, caps) ==
  IF pc = Nil \/ pc \in acc.seen THEN acc
  ELSE
    LET n == At(re.heap, pc)
        acc1 == [acc EXCEPT !.seen = @ \cup {pc}]
    IN CASE n.mode = "iSplit" ->
              AddThread(re, input, pos,
                        AddThread(re, input, pos, acc1, n.out, caps),
                        n.out1, caps)
         [] n.mode = "iIndexCap" ->
              AddThread(re, input, pos, acc1, n.out,
                        [caps EXCEPT ![n.cid + 1] = pos])
         [] n.mode = "iBoundaryCase" ->
              IF MatchBoundaryMode(n, LeftOf(input, pos), RightOf(input, pos))
                THEN AddThread(re, input, pos, acc1, n.out, caps)
                ELSE acc1
         [] OTHER ->
              [acc1 EXCEPT !.list = Append(@, [pc |-> pc, caps |-> caps])]

RECURSIVE StepThreads(_, _, _, _, _, _)
\* One step over the threads of clist from the i-th on: [next, matched].  A
\* thread on iMatch records its captures and cuts the threads after it.
StepThreads(re, input, pos, clist, i, st) ==
  IF i > Len(clist) THEN st
  ELSE
    LET t == clist[i]
        n == At(re.heap, t.pc)
    IN IF n.mode = "iMatch" THEN [st EXCEPT !.matched = t.caps]
       ELSE IF pos < Len(input) /\ InstrMatch(n, input[pos + 1])
         THEN LET next == AddThread(re, input, pos + 1, st.next, n.out, t.caps)
              IN IF Done(next)
                   THEN StepThreads(re, input, pos, clist, i + 1,
                                    [st EXCEPT !.next = next])
                   ELSE st
       ELSE StepThreads(re, input, pos, clist, i + 1, st)

RECURSIVE RunThreads(_, _, _, _, _)
\* The steps from offset pos on: the captures of the match, <<>> for none.
RunThreads(re, input, pos, clist, matched) ==
  LET st == StepThreads(re, input, pos, clist, 1,
                        [next |-> [list |-> <<>>, seen |-> {}],
                         matched |-> matched])
  IN IF pos >= Len(input) \/ st.next.list = <<>> THEN st.matched
     ELSE RunThreads(re, input, pos + 1, st.next.list, st.matched)

\* r.MatchIndex(s): the start and end offsets of every group, -1 for a group
\* that took no part; <<>> when there is no match.
MatchIndex(re, input) ==
  LET first == AddThread(re, input, 0, [list |-> <<>>, seen |-> {}],
                         re.prog[1], [i \in 1..(2 * re.caps) |-> -1] \o <<>>)
  IN RunThreads(re, input, 0, first.list, <<>>)

\* r.Match(s)
Match(re, input) == MatchIndex(re, input) # <<>>

(***************************************************************************)
(* Soundex.                                                                *)
(***************************************************************************)
\* var digits string
digits ==
  S(<< "0", "1", "2", "3", "0", "1", "2", "0", "0", "2", "2", "4", "5", "5",
       "0", "1", "2", "6", "2", "3", "0", "1", "0", "2", "0", "2" >>)

isAlpha(ch) == ch <= ord["z"] /\ ch >= ord["A"]

\* strings.ToUpper(name)
RECURSIVE StringToUpper(_)
StringToUpper(name) ==
  IF name = <<>> THEN <<>>
  ELSE <<ToUpper(Head(name))>> \o StringToUpper(Tail(name))

RECURSIVE SoundexLoop(_, _)
\* The loop of Soundex() over the runes of the upper-cased name, on
\* st = [sndx, fc, ok]; ok is FALSE once digits[c - 'A'] is out of range.
SoundexLoop(rest, st) ==
  IF rest = <<>> \/ ~st.ok THEN st
  ELSE
    LET c == Head(rest) IN
    IF ~isAlpha(c) THEN SoundexLoop(Tail(rest), st)
    ELSE IF c - ord["A"] >= Len(digits)
      THEN [st EXCEPT !.ok = FALSE, !.fc = IF @ = 0 THEN c ELSE @]
    ELSE
      LET d == digits[c - ord["A"] + 1] IN
      SoundexLoop(Tail(rest),
                  [st EXCEPT
                     !.fc = IF @ = 0 THEN c ELSE @,
                     !.sndx = IF st.sndx = <<>> \/ d # st.sndx[Len(st.sndx)]
                                THEN Append(@, d) ELSE @])

\* strings.Replace(s, "0", "", -1)
DropZeros(str) == SelectSeq(str, LAMBDA c : c # ord["0"])

RECURSIVE Zeros(_)
\* The string of n zeros that the last loop of Soundex() builds.
Zeros(n) == IF n = 0 THEN <<>> ELSE <<ord["0"]>> \o Zeros(n - 1)

\* Soundex(name, length): [ok, out]; ok is FALSE when the call aborts on a
\* run-time error.
Soundex(name, length) ==
  LET st == SoundexLoop(StringToUpper(name), [sndx |-> <<>>, fc |-> 0, ok |-> TRUE])
      sndx == DropZeros(<<st.fc>> \o Tail(st.sndx))
      zeros == Zeros(length)
  IN IF ~st.ok THEN [ok |-> FALSE, out |-> <<>>]
     ELSE IF Len(st.sndx) = 0 THEN [ok |-> TRUE, out |-> <<>>]
     ELSE [ok |-> TRUE, out |-> SubSeq(sndx \o zeros, 1, length)]

(***************************************************************************)
(* Caverphone.  The text is rewritten statement by statement; a statement  *)
(* gives [ok, rv], ok FALSE when it aborts on a run-time error.            *)
(***************************************************************************)
\* strings.ToLower(text)
StringToLower(text) == [i \in 1..Len(text) |-> ToLower(text[i])] \o <<>>

\* regexp.Compile("[^a-z]") and re.ReplaceAllString(rv, "")
RemoveNonAlphabet(rv) == SelectSeq(rv, IsAsciiLower)

RECURSIVE Replace(_, _, _)
\* strings.Replace(s, old, new, -1) for a text old that is not empty: the
\* occurrences of old that do not overlap, from the left.
Replace(s, old, new) ==
  IF s = <<>> THEN <<>>
  ELSE IF HasPrefixAt(s, old, 1)
    THEN new \o Replace(SubSeq(s, Len(old) + 1, Len(s)), old, new)
  ELSE <<Head(s)>> \o Replace(Tail(s), old, new)

RECURSIVE ReplaceRuns(_, _)
\* regexp.Compile(sc + "+") and re.ReplaceAllString(rv, strings.ToUpper(sc)):
\* every run of the letter sc becomes one upper-case letter.
ReplaceRuns(s, sc) ==
  IF s = <<>> THEN <<>>
  ELSE IF Head(s) # sc THEN <<Head(s)>> \o ReplaceRuns(Tail(s), sc)
  ELSE IF Len(s) >= 2 /\ s[2] = sc THEN ReplaceRuns(Tail(s), sc)
  ELSE <<ToUpper(sc)>> \o ReplaceRuns(Tail(s), sc)

\* sre2.MustParse(src): [ok, re]; ok is FALSE when it panics.
MustParseOf(r) == [ok |-> r.outcome = "ok", re |-> r.re]
MustParse(src) == MustParseOf(Parse(src))

\* The substring of a group of loc, empty for a group that took no part.
GroupText(input, loc, g) ==
  IF loc[2 * g + 1] < 0 THEN <<>>
  ELSE SubSeq(input, loc[2 * g + 1] + 1, loc[2 * g + 2])

\* What Extract makes of the offsets loc of MatchIndex.
ExtractTexts(re, input, max, loc) ==
  IF loc = <<>> \/ max < 2 THEN <<>>
  ELSE [g \in 1..(IF max - 1 < re.caps THEN max - 1 ELSE re.caps) |->
          GroupText(input, loc, g - 1)] \o <<>>

\* r.Extract(src, max)
Extract(re, input, max) ==
  ExtractTexts(re, input, max, MatchIndex(re, input))

\* The matchers Caverphone() makes with MustParse.
ReOugh ==
  MustParse(S(<<"^", "(", "[", "c", "r", "t", "]", "|", "(", "e", "n", ")",
               "|", "(", "t", "r", ")", ")", "o", "u", "g", "h">>))
ReGn == MustParse(S(<<"^", "g", "n">>))
ReMb == MustParse(S(<<"m", "b", "$">>))
ReVowel == MustParse(S(<<"^", "[", "a", "i", "u", "e", "o", "]">>))

\* A statement that went through, and one that aborted.
Went(rv) == [ok |-> TRUE, rv |-> rv]
Aborted == [ok |-> FALSE, rv |-> <<>>]

\* rv = head + rv[n:]
HeadAnd(head, rv, n) ==
  IF n > Len(rv) THEN Aborted
  ELSE Went(head \o SubSeq(rv, n + 1, Len(rv)))

\* if len(caps) > 1 { d := caps[1] + "ou2f"; l := len(d); rv = d + rv[l:] }
OughCaps(rv, caps) ==
  IF Len(caps) > 1
    THEN HeadAnd(caps[2] \o S(<<"o", "u", "2", "f">>), rv, Len(caps[2]) + 4)
    ELSE Went(rv)

\* The statements of Caverphone() after the text is lower-cased and stripped,
\* in order: replace is rv = strings.Replace(rv, a, b, -1), runs the
\* replacement of the runs of a, first the test of rv[0] against a, only the
\* test of rv[:len(rv)] against a, and the others are named after what they
\* look for.
Rule(a, b) == [op |-> "replace", a |-> S(a), b |-> S(b)]
Stmt(op, a) == [op |-> op, a |-> S(a), b |-> <<>>]
Statements ==
  << Stmt("ough", <<>>), Stmt("gn", <<>>), Stmt("mb", <<>>),
     Rule(<<"c", "q">>, <<"2", "q">>), Rule(<<"c", "i">>, <<"s", "i">>),
     Rule(<<"c", "e">>, <<"s", "e">>), Rule(<<"c", "y">>, <<"s", "y">>),
     Rule(<<"t", "c", "h">>, <<"2", "c", "h">>), Rule(<<"c">>, <<"k">>),
     Rule(<<"q">>, <<"k">>), Rule(<<"x">>, <<"k">>), Rule(<<"v">>, <<"f">>),
     Rule(<<"d", "g">>, <<"2", "g">>),
     Rule(<<"t", "i", "o">>, <<"s", "i", "o">>),
     Rule(<<"t", "i", "a">>, <<"s", "i", "a">>), Rule(<<"d">>, <<"t">>),
     Rule(<<"p", "h">>, <<"f", "h">>), Rule(<<"b">>, <<"p">>),
     Rule(<<"s", "h">>, <<"s", "2">>), Rule(<<"z">>, <<"s">>),
     Stmt("vowel", <<>>),
     Rule(<<"a">>, <<"3">>), Rule(<<"i">>, <<"3">>), Rule(<<"u">>, <<"3">>),
     Rule(<<"e">>, <<"3">>), Rule(<<"o">>, <<"3">>), Rule(<<"j">>, <<"y">>),
     Stmt("y3", <<>>), Stmt("first", <<"y">>),
     Rule(<<"y">>, <<"3">>),
     Rule(<<"3", "g", "h", "3">>, <<"3", "k", "h", "3">>),
     Rule(<<"g", "h">>, <<"2", "2">>), Rule(<<"g">>, <<"k">>),
     Rule(<<"e">>, <<"3">>),
     Stmt("runs", <<"s">>), Stmt("runs", <<"t">>), Stmt("runs", <<"p">>),
     Stmt("runs", <<"k">>), Stmt("runs", <<"f">>), Stmt("runs", <<"m">>),
     Stmt("runs", <<"n">>),
     Rule(<<"w", "3">>, <<"W", "3">>),
     Rule(<<"w", "h", "3">>, <<"W", "h", "3">>),
     Stmt("only", <<"w">>), Rule(<<"w">>, <<"2">>),
     Stmt("first", <<"h">>),
     Rule(<<"h">>, <<"2">>), Rule(<<"r", "3">>, <<"R", "3">>),
     Stmt("only", <<"r">>), Rule(<<"r">>, <<"2">>),
     Rule(<<"l", "3">>, <<"L", "3">>),
     Stmt("only", <<"l">>), Rule(<<"l">>, <<"2">>), Rule(<<"2">>, <<>>),
     Stmt("last3", <<>>),
     Rule(<<"3">>, <<>>) >>

\* One statement of Caverphone() on rv: [ok, rv].
Statement(rv, st) ==
  CASE st.op = "replace" -> Went(Replace(rv, st.a, st.b))
    [] st.op = "runs" -> Went(ReplaceRuns(rv, st.a[1]))
    [] st.op = "ough" ->
         IF ~ReOugh.ok THEN Aborted
         ELSE OughCaps(rv, Extract(ReOugh.re, rv, 3))
    [] st.op = "gn" ->
         IF ~ReGn.ok THEN Aborted
         ELSE IF Match(ReGn.re, rv) THEN HeadAnd(S(<<"2", "n">>), rv, 2)
         ELSE Went(rv)
    [] st.op = "mb" ->
         \* rv = rv[:-2] + "m2": a slice that ends before it starts
         IF ~ReMb.ok THEN Aborted
         ELSE IF Match(ReMb.re, rv) THEN Aborted
         ELSE Went(rv)
    [] st.op = "vowel" ->
         IF ~ReVowel.ok THEN Aborted
         ELSE IF Match(ReVowel.re, rv) THEN HeadAnd(S(<<"A">>), rv, 1)
         ELSE Went(rv)
    [] st.op = "y3" ->
         \* if rv[:2] == "y3" { rv = "Y3" + rv[2:] }
         IF Len(rv) < 2 THEN Aborted
         ELSE IF SubSeq(rv, 1, 2) = S(<<"y", "3">>)
           THEN HeadAnd(S(<<"Y", "3">>), rv, 2)
         ELSE Went(rv)
    [] st.op = "first" ->
         \* if rv[0] == a { rv = "A" + rv[1:] }
         IF rv = <<>> THEN Aborted
         ELSE IF rv[1] = st.a[1] THEN HeadAnd(S(<<"A">>), rv, 1)
         ELSE Went(rv)
    [] st.op = "only" ->
         \* if rv[:len(rv)] == a { rv = rv[:len(rv)] + "3" }
         IF rv = st.a THEN Went(rv \o S(<<"3">>)) ELSE Went(rv)
    [] st.op = "last3" ->
         \* if rv[len(rv)-1] == '3' { rv = rv[:len(rv)-1] + "A" }
         IF rv = <<>> THEN Aborted
         ELSE IF rv[Len(rv)] = ord["3"]
           THEN Went(SubSeq(rv, 1, Len(rv) - 1) \o S(<<"A">>))
         ELSE Went(rv)

\* The statement at position i of Statements, on the result r of those
\* before it.
StatementAt(r, i) == IF r.ok THEN Statement(r.rv, Statements[i + 1]) ELSE r

\* rv + "1111111111", and rv[0:10] of that
Ones == S(<<"1", "1", "1", "1", "1", "1", "1", "1", "1", "1">>)

\* Caverphone() from its first statement to its return, r the result of the
\* statements.
CaverphoneCode(r) ==
  IF r.ok THEN [ok |-> TRUE, out |-> SubSeq(r.rv \o Ones, 1, 10)]
  ELSE [ok |-> FALSE, out |-> <<>>]

\* Caverphone(text): [ok, out]; ok is FALSE when the call aborts on a
\* run-time error.
Caverphone(text) ==
  IF Len(text) = 0 THEN [ok |-> TRUE, out |-> <<>>]
  ELSE CaverphoneCode(
         For(StatementAt, 0, Len(Statements),
             Went(RemoveNonAlphabet(StringToLower(text)))))

(***************************************************************************)
(* The inputs of the calls.                                                *)
(***************************************************************************)
\* The most tokens in a pattern given to Parse.
MaxToks == 3

\* The most layers of groups and quantifiers around the core of a pattern.
MaxWraps == 3

\* The most layers of groups and flags around the letter of a pattern.
MaxFlagWraps == 3

\* The largest bound written in a {n,m} quantifier.
MaxRep == 3

\* The most tokens in a name given to Soundex.
MaxName == 3

\* The largest length given to Soundex.
MaxLength == 5

\* The most tokens in a text given to Caverphone.
MaxText == 3

\* The most branches of an alternation.
MaxBranches == 3

\* The most code points in a text given to MatchIndex for a boundary.
MaxSentence == 3

\* The most dots written before and after a boundary.
MaxDots == 1

RECURSIVE Words(_, _)
\* The strings made of at most n of the tokens toks.
Words(toks, n) ==
  IF n = 0 THEN {<<>>}
  ELSE LET w == Words(toks, n - 1) IN
       w \cup {x \o t : x \in w, t \in toks}

RECURSIVE Wrapped(_, _, _)
\* The strings made by writing at most n of the layers wraps (pairs of a
\* text before and a text after) around one of atoms.
Wrapped(wraps, atoms, n) ==
  IF n = 0 THEN atoms
  ELSE LET w == Wrapped(wraps, atoms, n - 1) IN
       w \cup {wr[1] \o x \o wr[2] : x \in w, wr \in wraps}

\* Tokens of patterns, well-formed or not.
ParseToks ==
  { S(<<"a">>), S(<<"a", "b">>), S(<<"|">>), S(<<"(">>), S(<<")">>),
    S(<<"*">>), S(<<"(", "?", "i">>), S(<<"(", "?", "1", ")">>),
    S(<<"[", "a", "b">>), S(<<"]">>), S(<<"[", ":", ":", "]">>),
    S(<<"{", "2">>) }

\* Layers of groups and bounded repetitions.
GroupWraps ==
  { <<S(<<"(">>), S(<<")">>)>>,
    <<S(<<"(", "?", ":">>), S(<<")">>)>>,
    <<S(<<"(", "?", "P", "<", "n", ">">>), S(<<")">>)>>,
    <<S(<<"(">>), S(<<"|", "b", ")">>)>>,
    <<S(<<"(", "?", "i", ")">>), <<>>>>,
    <<<<>>, S(<<"{", "2", ",", "3", "}">>)>> }

\* The cores the layers of GroupWraps are written around.
GroupCores == { S(<<"a">>), S(<<"(", "a", ")">>) }

\* Layers of groups and flags.
FlagWraps ==
  { <<S(<<"(">>), S(<<")">>)>>,
    <<S(<<"(", "?", "P", "<", "n", ">">>), S(<<")">>)>>,
    <<S(<<"(", "?", "i", ":">>), S(<<")">>)>>,
    <<S(<<"(", "?", "s", "-", "i", ":">>), S(<<")">>)>>,
    <<S(<<"(", "?", "i", ")">>), <<>>>>,
    <<S(<<"(", "?", "-", "i", ")">>), <<>>>>,
    <<S(<<"(">>), S(<<"|", "b", ")">>)>>,
    <<<<>>, S(<<"b">>)>>,
    <<<<>>, S(<<"{", "2", "}">>)>> }

\* The texts given to MatchIndex for the patterns of ParseToks.
Texts == { <<>>, S(<<"a">>), S(<<"a", "b">>) }

\* The terms x a quantifier is written after, each with a text it matches.
QuantTerms ==
  << [x |-> S(<<"a">>), rep |-> S(<<"a">>)],
     [x |-> S(<<"(", "a", ")">>), rep |-> S(<<"a">>)],
     [x |-> S(<<"[", "a", "b", "]">>), rep |-> S(<<"b">>)],
     [x |-> S(<<"(", "?", ":", "a", "b", ")">>), rep |-> S(<<"a", "b">>)],
     [x |-> S(<<"(", "a", "|", "b", ")">>), rep |-> S(<<"b">>)] >>

\* How a pattern x<quantifier> is written: kind tells the quantifier
\*   star * | plus + | opt ? | n {n} | n_ {n,} | nm {n,m} |
\*   x {x} | xm {x,m} | _m {,m} | nx {n,x}
\* u that (?U) is written before it, z that ? is written after it, anch that
\* it is written between ^ and $, tail that it is written as (x<quantifier>)
\* before (x*), and k how many times the text of x is repeated in the input.
Quantifiers ==
  {[kind |-> kd, n |-> 0, m |-> 0] : kd \in {"star", "plus", "opt"}}
    \cup {[kind |-> "n", n |-> n, m |-> 0] : n \in 1..MaxRep}
    \cup {[kind |-> "n_", n |-> n, m |-> 0] : n \in 0..MaxRep}
    \cup {[kind |-> "nm", n |-> n, m |-> m] : n \in 0..MaxRep, m \in 1..MaxRep}
    \cup {[kind |-> "x", n |-> 0, m |-> 0]}
    \cup {[kind |-> "nx", n |-> n, m |-> 0] : n \in 0..MaxRep}
    \cup {[kind |-> kd, n |-> 0, m |-> m] : kd \in {"xm", "_m"}, m \in 1..MaxRep}

\* The quantifiers {n,m} with m < n and those with a bound that is no number.
Malformed(f) ==
  f.kind \in {"x", "xm", "_m", "nx"} \/ (f.kind = "nm" /\ f.m < f.n)

QuantForms ==
  {[kind |-> q.kind, n |-> q.n, m |-> q.m, x |-> x, u |-> u, z |-> z,
    anch |-> a[1], tail |-> a[2], k |-> k] :
     q \in {r \in Quantifiers : ~Malformed(r)}, x \in 1..Len(QuantTerms),
     u \in BOOLEAN, z \in BOOLEAN,
     a \in {<<FALSE, FALSE>>, <<TRUE, FALSE>>, <<FALSE, TRUE>>},
     k \in 0..(MaxRep + 1)}
    \cup
  {[kind |-> q.kind, n |-> q.n, m |-> q.m, x |-> 1, u |-> FALSE, z |-> FALSE,
    anch |-> FALSE, tail |-> FALSE, k |-> k] :
     q \in {r \in Quantifiers : Malformed(r)}, k \in 0..(MaxRep + 1)}

NoForm ==
  [kind |-> "none", n |-> 0, m |-> 0, x |-> 0, u |-> FALSE, z |-> FALSE,
   anch |-> FALSE, tail |-> FALSE, k |-> 0]

\* The decimal digit n.
Digit(n) == <<ord["0"] + n>>

\* The quantifier of a form, as written.
WrittenQuantifier(f) ==
  CASE f.kind = "star" -> S(<<"*">>)
    [] f.kind = "plus" -> S(<<"+">>)
    [] f.kind = "opt" -> S(<<"?">>)
    [] f.kind = "n" -> S(<<"{">>) \o Digit(f.n) \o S(<<"}">>)
    [] f.kind = "n_" -> S(<<"{">>) \o Digit(f.n) \o S(<<",", "}">>)
    [] f.kind = "nm" ->
         S(<<"{">>) \o Digit(f.n) \o S(<<",">>) \o Digit(f.m) \o S(<<"}">>)
    [] f.kind = "x" -> S(<<"{", "x", "}">>)
    [] f.kind = "xm" -> S(<<"{", "x", ",">>) \o Digit(f.m) \o S(<<"}">>)
    [] f.kind = "_m" -> S(<<"{", ",">>) \o Digit(f.m) \o S(<<"}">>)
    [] f.kind = "nx" -> S(<<"{">>) \o Digit(f.n) \o S(<<",", "x", "}">>)

\* The pattern of a form, as written.
Written(f) ==
  LET closure == QuantTerms[f.x].x \o WrittenQuantifier(f)
                   \o (IF f.z THEN S(<<"?">>) ELSE <<>>)
  IN (IF f.u THEN S(<<"(", "?", "U", ")">>) ELSE <<>>)
       \o (IF f.anch THEN S(<<"^">>) ELSE <<>>)
       \o (IF f.tail
             THEN S(<<"(">>) \o closure \o S(<<")", "(">>) \o QuantTerms[f.x].x
                    \o S(<<"*", ")">>)
             ELSE closure)
       \o (IF f.anch THEN S(<<"$">>) ELSE <<>>)

RECURSIVE Repeat(_, _)
\* The text s written k times.
Repeat(s, k) == IF k = 0 THEN <<>> ELSE s \o Repeat(s, k - 1)

\* Tokens of names.
NameToks ==
  { S(<<"r", "o">>), S(<<"b", "i", "n">>), S(<<"a">>), S(<<"B">>),
    S(<<"m">>), S(<<"_">>), S(<<"1">>), S(<<" ">>) }

\* Tokens of texts.
TextToks ==
  { S(<<"m">>), S(<<"a", "y">>), S(<<"e", "i">>), S(<<"e", "r">>),
    S(<<"P", "e", "t">>), S(<<"a">>), S(<<"w">>), S(<<"c">>),
    S(<<"o", "u", "g", "h">>), S(<<"g", "n">>), S(<<"m", "b">>),
    S(<<"1">>) }

\* The branches of an alternation.
Branches ==
  { <<>>, S(<<"a">>), S(<<"b">>), S(<<"a", "b">>), S(<<"a", "*">>),
    S(<<"a", "?">>) }

\* The quantifiers written after an alternation, <<>> for none.
AltQuantifiers == { <<>>, S(<<"*">>) }

RECURSIVE Lists(_, _)
\* The lists of 1 to n elements of set.
Lists(set, n) ==
  IF n = 1 THEN {<<x>> : x \in set}
  ELSE Lists(set, n - 1)
         \cup {Append(l, x) : l \in {m \in Lists(set, n - 1) : Len(m) = n - 1},
                              x \in set}

\* How a pattern (b1|...|bk)q is written: the branches, whether the group
\* captures, and the quantifier after it.
AltForms ==
  {[kind |-> "alt", branches |-> bs, capture |-> c, q |-> q] :
     bs \in Lists(Branches, MaxBranches), c \in BOOLEAN,
     q \in AltQuantifiers}

RECURSIVE Joined(_, _)
\* b1|...|bi for the first i of the branches bs.
Joined(bs, i) ==
  IF i = 1 THEN bs[1] ELSE Joined(bs, i - 1) \o S(<<"|">>) \o bs[i]

\* The pattern of an alternation, as written.
WrittenAlt(f) ==
  (IF f.capture THEN S(<<"(">>) ELSE S(<<"(", "?", ":">>))
    \o Joined(f.branches, Len(f.branches)) \o S(<<")">>) \o f.q

\* The texts given to MatchIndex for the alternations.
AltTexts ==
  { <<>>, S(<<"a">>), S(<<"b">>), S(<<"a", "a">>), S(<<"a", "b">>) }

\* What is written between the brackets of a class.
ClassBodies ==
  { S(<<"a", "-", "c">>), S(<<"b">>), S(<<"A", "-", "C">>),
    S(<<"a", "D">>), S(<<"0", "-", "9">>), S(<<"b", "-", "y", "_">>) }

\* How a class is written: [body] or [^body], after (?i) or not.
ClassForms ==
  {[kind |-> "class", body |-> b, negate |-> n, fold |-> f] :
     b \in ClassBodies, n \in BOOLEAN, f \in BOOLEAN}

\* The pattern of a class, as written.
WrittenClass(f) ==
  (IF f.fold THEN S(<<"(", "?", "i", ")">>) ELSE <<>>)
    \o S(<<"[">>) \o (IF f.negate THEN S(<<"^">>) ELSE <<>>)
    \o f.body \o S(<<"]">>)

\* The texts of one code point given to MatchIndex for the classes.
ClassTexts ==
  { S(<<"a">>), S(<<"b">>), S(<<"B">>), S(<<"d">>), S(<<"D">>), S(<<"z">>),
    S(<<"5">>), S(<<"_">>) }

\* How a boundary is written: ^, before dots, \\b or \\B, after dots, $; or,
\* for a word, \\ba\\b.
BoundaryForms ==
  {[kind |-> "boundary", before |-> i, after |-> j, negate |-> n] :
     i \in 0..MaxDots, j \in 0..MaxDots, n \in BOOLEAN}
    \cup {[kind |-> "word", before |-> 0, after |-> 0, negate |-> FALSE]}

\* The pattern of a boundary, as written.
WrittenBoundary(f) ==
  IF f.kind = "word" THEN S(<<"\\", "b", "a", "\\", "b">>)
  ELSE S(<<"^">>) \o Repeat(S(<<".">>), f.before)
         \o (IF f.negate THEN S(<<"\\", "B">>) ELSE S(<<"\\", "b">>))
         \o Repeat(S(<<".">>), f.after) \o S(<<"$">>)

\* The texts given to MatchIndex for the boundaries: word characters, a
\* space, a tab and punctuation.
BoundaryTexts ==
  Words({S(<<"a">>), S(<<"_">>), S(<<" ">>), <<9>>, S(<<".">>)}, MaxSentence)

(***************************************************************************)
(* The calls of the program.  A run makes one call of Parse, and of        *)
(* MatchIndex on the matcher Parse returned, or one call of Soundex, or    *)
(* one call of Caverphone.                                                 *)
(***************************************************************************)
VARIABLES
  pattern,  \* the argument of Parse
  form,     \* how pattern was written, NoForm when it is any text
  input,    \* the argument of MatchIndex
  name,     \* the first argument of Soundex
  length,   \* the second argument of Soundex
  phase,    \* "start", then "returned", "abort" or "hang" after Parse,
            \* "matched" after MatchIndex, "done" after Soundex
  raw,      \* the parser state that Parse handed to cleanup
  res,      \* what Parse returned
  loc,      \* what MatchIndex returned
  sdx,      \* what Soundex returned
  text,     \* the argument of Caverphone
  cav       \* what Caverphone returned

vars ==
  <<pattern, form, input, name, length, phase, raw, res, loc, sdx, text, cav>>

\* No call has been made.
NoCall ==
  /\ phase = "start"
  /\ raw = NewParser(<<>>)
  /\ res = [re |-> NoRe, err |-> "", outcome |-> "none"]
  /\ loc = <<>>
  /\ sdx = [ok |-> TRUE, out |-> <<>>]
  /\ cav = [ok |-> TRUE, out |-> <<>>]

NoName == name = <<>> /\ length = 0 /\ text = <<>>

Init ==
  /\ pattern \in Words(ParseToks, MaxToks)
  /\ form = NoForm
  /\ input \in Texts
  /\ NoName
  /\ NoCall

InitGroups ==
  /\ pattern \in Wrapped(GroupWraps, GroupCores, MaxWraps)
  /\ form = NoForm
  /\ input = <<>>
  /\ NoName
  /\ NoCall

InitFlags ==
  /\ pattern \in Wrapped(FlagWraps, {S(<<"a">>)}, MaxFlagWraps)
  /\ form = NoForm
  /\ input = <<>>
  /\ NoName
  /\ NoCall

InitQuant ==
  /\ form \in QuantForms
  /\ pattern = Written(form)
  /\ input = Repeat(QuantTerms[form.x].rep, form.k)
  /\ NoName
  /\ NoCall

InitSoundex ==
  /\ pattern = <<>>
  /\ form = NoForm
  /\ input = <<>>
  /\ name \in Words(NameToks, MaxName)
  /\ length \in 0..MaxLength
  /\ text = <<>>
  /\ NoCall

InitCaverphone ==
  /\ pattern = <<>>
  /\ form = NoForm
  /\ input = <<>>
  /\ name = <<>>
  /\ length = 0
  /\ text \in Words(TextToks, MaxText)
  /\ NoCall

InitAlt ==
  /\ form \in AltForms
  /\ pattern = WrittenAlt(form)
  /\ input \in AltTexts
  /\ NoName
  /\ NoCall

\* The alternations written between ^ and $.
InitAnchored ==
  /\ form \in {[f EXCEPT !.kind = "anchored"] : f \in AltForms}
  /\ pattern = S(<<"^">>) \o WrittenAlt(form) \o S(<<"$">>)
  /\ input \in AltTexts
  /\ NoName
  /\ NoCall

InitClass ==
  /\ form \in ClassForms
  /\ pattern = WrittenClass(form)
  /\ input \in ClassTexts
  /\ NoName
  /\ NoCall

InitBoundary ==
  /\ form \in BoundaryForms
  /\ pattern = WrittenBoundary(form)
  /\ input \in BoundaryTexts
  /\ NoName
  /\ NoCall

\* re, err := Parse(pattern)
CallParse ==
  /\ phase = "start"
  /\ raw' = ParseProgram(pattern)
  /\ res' = ParseResult(raw')
  /\ phase' = IF res'.outcome \in {"ok", "error"} THEN "returned"
                                                   ELSE res'.outcome
  /\ UNCHANGED <<pattern, form, input, name, length, loc, sdx, text, cav>>

\* loc := re.MatchIndex(input), on the matcher Parse returned
CallMatchIndex ==
  /\ phase = "returned"
  /\ res.outcome = "ok"
  /\ loc' = MatchIndex(res.re, input)
  /\ phase' = "matched"
  /\ UNCHANGED <<pattern, form, input, name, length, raw, res, sdx, text, cav>>

\* sdx := Soundex(name, length)
CallSoundex ==
  /\ phase = "start"
  /\ sdx' = Soundex(name, length)
  /\ phase' = "done"
  /\ UNCHANGED <<pattern, form, input, name, length, raw, res, loc, text, cav>>

\* cav := Caverphone(text)
CallCaverphone ==
  /\ phase = "start"
  /\ cav' = Caverphone(text)
  /\ phase' = "done"
  /\ UNCHANGED <<pattern, form, input, name, length, raw, res, loc, sdx, text>>

Next == CallParse \/ CallMatchIndex

Spec == Init /\ [][Next]_vars

SpecGroups == InitGroups /\ [][CallParse]_vars

SpecFlags == InitFlags /\ [][CallParse]_vars

SpecQuant == InitQuant /\ [][Next]_vars

SpecSoundex == InitSoundex /\ [][CallSoundex]_vars

SpecCaverphone == InitCaverphone /\ [][CallCaverphone]_vars

SpecAlt == InitAlt /\ [][Next]_vars

SpecAnchored == InitAnchored /\ [][Next]_vars

SpecClass == InitClass /\ [][Next]_vars

SpecBoundary == InitBoundary /\ [][Next]_vars

(***************************************************************************)
(* What the properties below read from the results.                        *)
(***************************************************************************)
\* The span of group 0 in what MatchIndex returned, <<>> for no match.
Group0(l) == IF Len(l) >= 2 THEN <<l[1], l[2]>> ELSE <<>>

\* The span of group 1 in what MatchIndex returned.
Group1(l) == IF Len(l) >= 4 THEN <<l[3], l[4]>> ELSE <<>>

\* Parse has returned a matcher.
Accepted == phase \in {"returned", "matched"} /\ res.outcome = "ok"

(***************************************************************************)
(* The outcomes of Parse.                                                  *)
(***************************************************************************)
\* C1: for every pattern, the call of Parse ends with either a matcher and
\* no error or no matcher and an error message, and with nothing else.
\* Violated: on "[::]" the parser indexes an empty name, a run-time error
\* that the deferred function of Parse raises again.
C1_ParseOutcomes ==
  phase \notin {"start", "hang"} =>
    \/ /\ res.outcome = "ok"
       /\ res.re # NoRe
       /\ res.err = ""
    \/ /\ res.outcome = "error"
       /\ res.re = NoRe
       /\ res.err # ""

\* C2: the pattern a|ab, with the alternation outside any parentheses, is
\* accepted by Parse and its match against ab is a, offsets 0..1.
\* Violated: regexp() stops at the '|' and Parse reports the rest.
C2_TopLevelAlternation ==
  pattern = S(<<"a", "|", "a", "b">>) =>
    /\ phase # "start" => res.outcome = "ok"
    /\ (phase = "matched" /\ input = S(<<"a", "b">>)) => Group0(loc) = <<0, 1>>

\* C4: Parse terminates on every pattern, also on one that ends inside a
\* flag list or a bracket class.  Violated: the loops over the flags and
\* over the class do not stop at the end of the input.
C4_ParseTerminates == phase # "hang"

(***************************************************************************)
(* The number of capturing groups.                                         *)
(***************************************************************************)
\* The capturing groups written in pat: each "(" that is not followed by
\* "?" and each "(?P<".
CaptureCount(pat) ==
  Cardinality({i \in 1..Len(pat) :
                 /\ pat[i] = ord["("]
                 /\ (i = Len(pat) \/ pat[i + 1] # ord["?"])})
    + Cardinality({i \in 1..Len(pat) :
                     HasPrefixAt(pat, S(<<"(", "?", "P", "<">>), i)})

\* C3: for every pattern Parse accepts, NumSubexps is the number of
\* capturing groups written in it, plain or named, each counted once, also
\* under bounded repetitions that parse the group again, nested or not.
C3_NumSubexps == Accepted => NumSubexps(res.re) = CaptureCount(pattern)

\* The groups of ((a){2,3}){2,3} are parsed again and again, and counted twice.
C3_Witness ==
  /\ Accepted
  /\ pattern = S(<<"(", "(", "a", ")", "{", "2", ",", "3", "}", ")",
                   "{", "2", ",", "3", "}">>)
  /\ NumSubexps(res.re) = 2

(***************************************************************************)
(* Quantifiers.                                                            *)
(***************************************************************************)
\* The least number of repetitions the quantifier of f asks for.
Lo(f) == CASE f.kind \in {"star", "opt"} -> 0
           [] f.kind = "plus" -> 1
           [] OTHER -> f.n

\* The greatest number of repetitions the quantifier of f allows, -1 for
\* no limit.
Hi(f) == CASE f.kind \in {"star", "plus", "n_"} -> -1
           [] f.kind = "opt" -> 1
           [] f.kind = "n" -> f.n
           [] OTHER -> f.m

\* x{n}, x{n,} and x{n,m} with 0 <= n <= m and m >= 1.
Bounded(f) ==
  /\ f.kind \in {"n", "n_", "nm"}
  /\ f.kind = "nm" => f.n <= f.m
  /\ Hi(f) # 0

\* x*, x+, x? and the bounded repetitions.
Quantified(f) == f.kind \in {"star", "plus", "opt"} \/ Bounded(f)

\* k repetitions are within the bounds of f.
Admissible(f, k) == Lo(f) <= k /\ (Hi(f) = -1 \/ k <= Hi(f))

\* The longest admissible number of repetitions in the f.k copies given.
Longest(f) == IF Hi(f) = -1 \/ f.k <= Hi(f) THEN f.k ELSE Hi(f)

\* The length of c copies of the text of the term of f.
Span(f, c) == c * Len(QuantTerms[f.x].rep)

\* C5: the program of x{n,m} (0 <= n <= m, m >= 1; also x{n} and x{n,})
\* is accepted, matches k copies of x as a whole exactly when k is within
\* the bounds, and with the greedy default its leftmost match in k copies
\* takes the longest admissible count; a{2,3} in aaaa matches aaa.
C5_BoundedRepetition ==
  Bounded(form) =>
    /\ phase # "start" => res.outcome = "ok"
    /\ (phase = "matched" /\ form.anch) =>
         (loc # <<>>) = Admissible(form, form.k)
    /\ (phase = "matched" /\ ~form.anch /\ ~form.tail /\ ~form.u /\ ~form.z) =>
         Group0(loc) = IF form.k >= Lo(form)
                         THEN <<0, Span(form, Longest(form))>> ELSE <<>>

\* a{2,3} against aaaa matches the 3 code points aaa.
C5_Witness ==
  /\ phase = "matched"
  /\ pattern = S(<<"a", "{", "2", ",", "3", "}">>)
  /\ input = S(<<"a", "a", "a", "a">>)
  /\ Group0(loc) = <<0, 3>>

\* The closure of f is lazy: flag U or a trailing ?, and not both.
Lazy(f) == f.u # f.z

\* Where the closure of f starts in Written(f).
FirstAt(f) ==
  1 + (IF f.u THEN 4 ELSE 0) + (IF f.anch THEN 1 ELSE 0)
    + (IF f.tail THEN 1 ELSE 0)

\* The Split at h repeats the term on out and goes on along out1.
TermOnOut(heap, h, term) ==
  At(heap, h).out = term /\ At(heap, h).out1 \notin {Nil, term}

\* The Split at h repeats the term on out1 and goes on along out.
TermOnOut1(heap, h, term) ==
  At(heap, h).out1 = term /\ At(heap, h).out \notin {Nil, term}

\* The instruction i is in the program that cleanup() returned.
Kept(re, i) == \E j \in 1..Len(re.prog) : re.prog[j] = i

RECURSIVE Skip(_, _)
\* The instruction that an edge to i leads to after cleanup(): i, or what
\* follows the Splits that cleanup() removed there.
Skip(re, i) ==
  IF i = Nil \/ Kept(re, i) THEN i ELSE Skip(re, At(re.heap, i).out)

C8_MalformedRejected ==
  (phase # "start" /\ Malformed(form)) => res.outcome = "error"

(***************************************************************************)
(* Flags.                                                                  *)
(***************************************************************************)
\* The first position from i on in pat that holds one of chars, Len(pat) + 1
\* when there is none.
NextOf(pat, i, chars) ==
  CHOOSE j \in i..(Len(pat) + 1) :
    /\ j = Len(pat) + 1 \/ pat[j] \in chars
    /\ \A k \in i..(j - 1) : pat[k] \notin chars

\* The flag characters of the flag group that starts at i in pat (the text
\* between "(?" and the first ":" or ")"), <<>> when no flag group starts
\* there.
FlagChars(pat, i) ==
  IF /\ HasPrefixAt(pat, S(<<"(", "?">>), i)
     /\ ~HasPrefixAt(pat, S(<<"(", "?", "P">>), i)
    THEN SubSeq(pat, i + 2, NextOf(pat, i + 2, {ord[":"], ord[")"]}) - 1)
    ELSE <<>>

\* pat has a flag group with a flag character outside 64..127.
FlagOutOfRange(pat) ==
  \E i \in 1..Len(pat) : \E j \in 1..Len(FlagChars(pat, i)) :
    LET c == FlagChars(pat, i)[j] IN
    c # ord["-"] /\ (c < 64 \/ c > 127)

\* C7: a flag character outside 64..127 in a flag group makes Parse fail
\* with an error.  Violated: the test of the range can never be true, and
\* (?1)a is accepted.
C7_FlagRangeRejected ==
  (phase = "returned" /\ FlagOutOfRange(pattern)) => res.outcome = "error"

\* The flags the characters fl of a flag group make of the flags cur: those
\* before the first "-" are set, those after it are cleared.
FlagsAfter(cur, fl) ==
  LET m == NextOf(fl, 1, {ord["-"]})
      on == {fl[j] : j \in 1..(m - 1)}
      off == {fl[j] : j \in (m + 1)..Len(fl)} \ {ord["-"]}
  IN (cur \cup on) \ off

RECURSIVE ScopedFlags(_, _, _, _, _)
\* The flags in effect at each position of pat that is not part of the
\* opening or the closing of a group, read off the text from position i on:
\* cur are the flags in effect, stack those in effect before each of the
\* groups with a body that are open, seen the positions read so far.
ScopedFlags(pat, i, cur, stack, seen) ==
  LET close == NextOf(pat, i, {ord[":"], ord[")"]})
      gt == NextOf(pat, i, {ord[">"]})
  IN CASE i > Len(pat) -> seen
       [] HasPrefixAt(pat, S(<<"(", "?", "P">>), i) ->
            ScopedFlags(pat, gt + 1, cur, <<cur>> \o stack, seen)
       [] HasPrefixAt(pat, S(<<"(", "?">>), i) /\ close > Len(pat) -> seen
       [] HasPrefixAt(pat, S(<<"(", "?">>), i) /\ pat[close] = ord[":"] ->
            ScopedFlags(pat, close + 1, FlagsAfter(cur, FlagChars(pat, i)),
                        <<cur>> \o stack, seen)
       [] HasPrefixAt(pat, S(<<"(", "?">>), i) ->
            ScopedFlags(pat, close + 1, FlagsAfter(cur, FlagChars(pat, i)),
                        stack, seen)
       [] pat[i] = ord["("] ->
            ScopedFlags(pat, i + 1, cur, <<cur>> \o stack, seen)
       [] pat[i] = ord[")"] /\ stack # <<>> ->
            ScopedFlags(pat, i + 1, Head(stack), Tail(stack), seen)
       [] OTHER ->
            ScopedFlags(pat, i + 1, cur, stack, seen @@ (i :> cur))

\* The flags in effect at position i of pat, as the bits the parser keeps.
FlagsAt(pat, i) == {c - 64 : c \in ScopedFlags(pat, 1, {}, <<>>, <<>>)[i]}

\* C9: when the parser is through a group that has a body (capturing,
\* named or flag-scoped) the flags are those in effect before its "(",
\* whatever was set or cleared inside, in any of its branches; a flag-only
\* group changes the flags from its position to the end of the directly
\* enclosing group, so every rune class is built under the flags that the
\* scopes of the text give its position.
C9_FlagsScoped ==
  Accepted =>
    /\ \A i \in 1..Len(raw.groups) :
         raw.groups[i].after = raw.groups[i].before
    /\ \A i \in 1..Len(raw.classes) :
         raw.classes[i].flags = FlagsAt(pattern, raw.classes[i].at)

\* In ((?i)a)b the letter a is read under i, the letter b after the group
\* is not.
C9_Witness ==
  /\ Accepted
  /\ pattern = S(<<"(", "(", "?", "i", ")", "a", ")", "b">>)
  /\ \E i \in 1..Len(raw.groups) :
       raw.groups[i].at = 1 /\ raw.groups[i].after = {}
  /\ \E i \in 1..Len(raw.classes) :
       raw.classes[i].at = 6 /\ raw.classes[i].flags = {ord["i"] - 64}
  /\ \E i \in 1..Len(raw.classes) :
       raw.classes[i].at = 8 /\ raw.classes[i].flags = {}

(***************************************************************************)
(* Soundex.                                                                *)
(***************************************************************************)
\* The characters of name that isAlpha accepts, upper-cased.
Letters(str) == SelectSeq(StringToUpper(str), isAlpha)

\* C10: for every name and every length n >= 0 Soundex returns without
\* aborting: the empty string when the name has no character that isAlpha
\* accepts, and otherwise n characters, the upper-cased first letter and
\* then digits, padded with 0; Soundex("robin", 5) = "R1500".
\* Violated: isAlpha accepts the six characters between Z and a, for which
\* digits has no entry, and Soundex("_", n) aborts.
C10_SoundexTotal ==
  phase = "done" =>
    /\ sdx.ok
    /\ IF Letters(name) = <<>> THEN sdx.out = <<>>
       ELSE /\ Len(sdx.out) = length
            /\ length >= 1 => sdx.out[1] = Letters(name)[1]
            /\ \A i \in 2..Len(sdx.out) : sdx.out[i] \in ord["0"]..ord["6"]
    /\ (name = S(<<"r", "o", "b", "i", "n">>) /\ length = 5) =>
         sdx.out = S(<<"R", "1", "5", "0", "0">>)

(***************************************************************************)
(* Caverphone.                                                             *)
(***************************************************************************)
\* Whether a text holds an ASCII letter.
HasLetter(str) == \E i \in 1..Len(str) : IsAsciiLower(ToLower(str[i]))

\* A code of ten characters: characters that are not 1, then only 1.
PaddedCode(out) ==
  /\ Len(out) = 10
  /\ \E k \in 0..10 :
       /\ \A i \in 1..k : out[i] # ord["1"]
       /\ \A i \in (k + 1)..10 : out[i] = ord["1"]

\* C11: Caverphone returns the empty string for the empty text and, for
\* every text that holds an ASCII letter, returns without aborting a code of
\* ten characters, the phonetic code padded with 1 on the right;
\* Caverphone("mayer") = Caverphone("meier") = "MA11111111" and
\* Caverphone("Peter") = "PTA1111111".
\* Violated: rv[:2] is read of a text of one letter, and Caverphone("a")
\* aborts.
C11_CaverphoneCode ==
  phase = "done" =>
    /\ text = <<>> => cav = [ok |-> TRUE, out |-> <<>>]
    /\ HasLetter(text) => cav.ok /\ PaddedCode(cav.out)
    /\ text \in {S(<<"m", "a", "y", "e", "r">>), S(<<"m", "e", "i", "e", "r">>)}
         => cav.out = S(<<"M", "A", "1", "1", "1", "1", "1", "1", "1", "1">>)
    /\ text = S(<<"P", "e", "t", "e", "r">>)
         => cav.out = S(<<"P", "T", "A", "1", "1", "1", "1", "1", "1", "1">>)

(***************************************************************************)
(* The branches of an alternation.                                         *)
(***************************************************************************)
\* The first instruction of the regexp() that Parse calls: the one made
\* after those of the prefix and of the suffix.
RegexpStart == Len(ParseProgram(<<>>).prog) - 2

\* The instructions end and alt_begin of the alt() of a pattern that starts
\* with a group: they are made after the start of regexp() and the start of
\* closure().
AltExit == RegexpStart + 2
AltEntry == RegexpStart + 3

\* How many instructions regexp() makes for the text b.
BranchInstrs(b) == Len(ParseProgram(b).prog) - RegexpStart

RECURSIVE BranchStart(_, _)
\* The first instruction of the i-th branch of (b1|...|bk): the first branch
\* starts after alt_begin, every other after its Split.
BranchStart(bs, i) ==
  IF i = 1 THEN AltEntry + 1
  ELSE BranchStart(bs, i - 1) + BranchInstrs(bs[i - 1]) + 1

\* The last instruction of the i-th branch.
BranchEnd(bs, i) == BranchStart(bs, i) + BranchInstrs(bs[i]) - 1

RECURSIVE Expand(_, _, _)
\* The depth-first expansion from pc, primary edge before alternate edge:
\* the instructions in the order they are reached, order those reached so far.
Expand(heap, order, pc) ==
  IF pc = Nil \/ (\E k \in 1..Len(order) : order[k] = pc) THEN order
  ELSE
    LET n == At(heap, pc)
        o1 == Append(order, pc)
    IN CASE n.mode = "iSplit" ->
              Expand(heap, Expand(heap, o1, n.out), n.out1)
         [] n.mode \in {"iIndexCap", "iBoundaryCase"} ->
              Expand(heap, o1, n.out)
         [] OTHER -> o1

\* Where pc is in order, 0 when it is not there.
Position(order, pc) ==
  IF \E k \in 1..Len(order) : order[k] = pc
    THEN CHOOSE k \in 1..Len(order) : order[k] = pc
    ELSE 0

RECURSIVE Land(_, _, _, _)
\* The instruction of the program live that stands for pc: pc when it is in
\* the program, else the one the edges to pc were turned to when it was
\* removed; Nil when there is none.
Land(heap, live, pc, n) ==
  IF pc = Nil \/ n = 0 THEN Nil
  ELSE IF pc \in live THEN pc
  ELSE Land(heap, live, At(heap, pc).out, n - 1)

\* The instructions of the program Parse returned.
Live == {res.re.prog[k] : k \in 1..Len(res.re.prog)}

\* The instruction that stands for pc after cleanup.
Landed(pc) == Land(res.re.heap, Live, pc, Len(res.re.heap))

\* The branches are reached in source order in the expansion order, where
\* at(i) is the first instruction of the i-th branch.  Branches that start
\* at one and the same instruction (empty branches, once their Splits are
\* removed) are not told apart.
InSourceOrder(order, at(_), k) ==
  LET own == {i \in 1..k : \A m \in 1..k : at(m) = at(i) => m = i} IN
  /\ \A i \in 1..k : Position(order, at(i)) > 0
  /\ \A i, j \in own :
       i < j => Position(order, at(i)) < Position(order, at(j))

\* C12: for a parenthesised alternation (b1|...|bk), the depth-first
\* expansion from the entry of the group, primary edge before alternate
\* edge, reaches the first instruction of bi before that of bj for i < j,
\* and the end of every branch leads to the one end instruction of the
\* group; so it is in the program before cleanup and in the one after it.
\* Violated: in (?:|) cleanup cuts the edge from the end of the second branch
\* to the end of the group, which the first branch has reached before.
C12_BranchOrder ==
  (Accepted /\ form.kind = "alt") =>
    LET bs == form.branches
        k == Len(form.branches)
    IN /\ InSourceOrder(Expand(raw.prog, <<>>, AltEntry),
                        LAMBDA i : BranchStart(bs, i), k)
       /\ \A i \in 1..k : At(raw.prog, BranchEnd(bs, i)).out = AltExit
       /\ InSourceOrder(Expand(res.re.heap, <<>>, Landed(AltEntry)),
                        LAMBDA i : Landed(BranchStart(bs, i)), k)
       /\ \A i \in 1..k : Landed(BranchEnd(bs, i)) = Landed(AltExit)

(***************************************************************************)
(* cleanup().                                                              *)
(***************************************************************************)
\* The pointers of the heap.
Pointer(heap) == 0..(Len(heap) - 1)

\* The edges of the instruction at pc that are present.
Edges(heap, pc) == {At(heap, pc).out, At(heap, pc).out1} \ {Nil}

RECURSIVE SplitReach(_, _)
\* The Splits reached from the Splits of found along edges from Split to
\* Split.
SplitReach(heap, found) ==
  LET more == {t \in Pointer(heap) :
                 /\ At(heap, t).mode = "iSplit"
                 /\ \E f \in found : t \in Edges(heap, f)}
  IN IF more \subseteq found THEN found
     ELSE SplitReach(heap, found \cup more)

\* The edge from the Split pc to to lies on a cycle of Splits.
OnSplitCycle(heap, pc, to) ==
  /\ At(heap, to).mode = "iSplit"
  /\ pc \in SplitReach(heap, {to})

\* The edges that the first loop of cleanup() has set to nil.
CutEdges(heap) ==
  LET broken == BreakCycles(heap) IN
  {<<pc, At(heap, pc).out>> :
     pc \in {q \in Pointer(heap) :
               At(heap, q).out # Nil /\ At(broken, q).out = Nil}}
    \cup
  {<<pc, At(heap, pc).out1>> :
     pc \in {q \in Pointer(heap) :
               At(heap, q).out1 # Nil /\ At(broken, q).out1 = Nil}}

\* C13: the first loop of cleanup sets an edge of a Split to nil only if the
\* edge lies on a cycle made of Splits alone; an edge between Splits that is
\* on no such cycle is never removed by it.
\* Violated: in (?:|) the edge from the end of the second branch to the end
\* of the group is cut, and no path leads back from there.
C13_OnlyCycleEdgesCut ==
  Accepted =>
    \A e \in CutEdges(raw.prog) :
      /\ At(raw.prog, e[1]).mode = "iSplit"
      /\ OnSplitCycle(raw.prog, e[1], e[2])

\* C14: in the program Parse returns, every Split but instruction 0 has
\* both edges, to two different instructions.
\* Violated: a Split is looked at once by the second loop of cleanup, and
\* loses an edge later, when the Split the edge led to is removed.
C14_NoSingleSplit ==
  Accepted =>
    \A k \in 2..Len(res.re.prog) :
      LET n == At(res.re.heap, res.re.prog[k]) IN
      n.mode = "iSplit" => n.out # Nil /\ n.out1 # Nil /\ n.out # n.out1

\* C15: the program Parse returns has no empty slot, the index of every
\* instruction is its position, every edge that is present leads to an
\* instruction of the program, instruction 0 is the one made first, and the
\* start index is a position of the program.
C15_DenseProgram ==
  Accepted =>
    /\ \A k \in 1..Len(res.re.prog) :
         /\ res.re.prog[k] # Nil
         /\ At(res.re.heap, res.re.prog[k]).idx = k - 1
         /\ Edges(res.re.heap, res.re.prog[k]) \subseteq Live
    /\ res.re.prog[1] = 0
    /\ At(res.re.heap, 0).mode = At(raw.prog, 0).mode
    /\ res.re.start \in 0..(Len(res.re.prog) - 1)

\* (?:a*|a)* has lost instructions, the ones after them were moved up, and
\* an edge of a cycle of Splits was cut.
C15_Witness ==
  /\ Accepted
  /\ pattern = S(<<"(", "?", ":", "a", "*", "|", "a", ")", "*">>)
  /\ Len(res.re.prog) < Len(raw.prog)
  /\ \E k \in 1..Len(res.re.prog) : res.re.prog[k] # k - 1
  /\ CutEdges(raw.prog) # {}

(***************************************************************************)
(* What a program matches.                                                 *)
(***************************************************************************)
\* The instructions reached from pc along one edge that takes no input, at
\* offset pos of the text str.
Follow(heap, str, pos, pc) ==
  LET n == At(heap, pc) IN
  CASE n.mode = "iSplit" -> {n.out, n.out1} \ {Nil}
    [] n.mode = "iIndexCap" -> {n.out} \ {Nil}
    [] n.mode = "iBoundaryCase" ->
         IF MatchBoundaryMode(n, LeftOf(str, pos), RightOf(str, pos))
           THEN {n.out} \ {Nil}
           ELSE {}
    [] OTHER -> {}

RECURSIVE Eps(_, _, _, _)
\* The instructions reached from those of found along edges that take no
\* input.
Eps(heap, str, pos, found) ==
  LET more == UNION {Follow(heap, str, pos, f) : f \in found} IN
  IF more \subseteq found THEN found
  ELSE Eps(heap, str, pos, found \cup more)

\* The instructions reached from those of set by taking the code point at
\* offset pos.
Taken(heap, str, pos, set) ==
  {At(heap, pc).out :
     pc \in {q \in set : InstrMatch(At(heap, q), str[pos + 1])}} \ {Nil}

RECURSIVE Accepts(_, _, _, _)
\* There is an accepting path for the text str from one of the instructions
\* of set, the text taken from offset pos on.
Accepts(heap, str, pos, set) ==
  LET reached == Eps(heap, str, pos, set) IN
  IF \E pc \in reached : At(heap, pc).mode = "iMatch" THEN TRUE
  ELSE IF pos >= Len(str) THEN FALSE
  ELSE Accepts(heap, str, pos + 1, Taken(heap, str, pos, reached))

\* C17: the program Parse returns has an accepting path from the entry for
\* an input if and only if the program before cleanup has one.
\* Violated: the first loop of cleanup cuts the edge that takes a branch
\* back to the loop of the group.
C17_CleanupKeepsMatches ==
  Accepted =>
    (Accepts(res.re.heap, input, 0, {res.re.prog[1]})
       <=> Accepts(raw.prog, input, 0, {0}))

(***************************************************************************)
(* Negated classes.                                                        *)
(***************************************************************************)
\* The class [body] of a form written [^body], with the same flags, matches
\* the code point of str.
PlainClassMatches(f, str) ==
  Match(Parse(WrittenClass([f EXCEPT !.negate = FALSE])).re, str)

\* C16: with flag i, [^S] matches a code point if and only if [S] with flag
\* i does not; (?i)[^a-c] matches d and D, and neither b nor B.
\* Violated: the case folding is laid over the negation, so (?i)[^a-c]
\* matches b, whose upper case B is outside a-c.
C16_NegationIsComplement ==
  (phase = "matched" /\ form.kind = "class" /\ form.negate /\ form.fold) =>
    /\ (loc # <<>>) <=> ~PlainClassMatches(form, input)
    /\ form.body = S(<<"a", "-", "c">>) =>
         ((loc # <<>>) <=> input \in {S(<<"d">>), S(<<"D">>), S(<<"z">>),
                                     S(<<"5">>), S(<<"_">>)})

(***************************************************************************)
(* Word boundaries.                                                        *)
(***************************************************************************)
\* The code points of \\w and of \\s.
WordChar(c) ==
  \/ c \in ord["0"]..ord["9"]
  \/ c \in ord["A"]..ord["Z"]
  \/ c \in ord["a"]..ord["z"]
  \/ c = ord["_"]

WhiteSpace(c) == c \in {9, 10, 12, 13, ord[" "]}

\* At offset k of str one neighbour is a word character and the other one
\* is white space.
WordAndSpace(str, k) ==
  \/ WordChar(LeftOf(str, k)) /\ WhiteSpace(RightOf(str, k))
  \/ WhiteSpace(LeftOf(str, k)) /\ WordChar(RightOf(str, k))

\* The offsets k of str where a stands between two offsets with a word
\* character on one side and white space on the other.
WordOffsets(str) ==
  {k \in 0..(Len(str) - 1) :
     /\ WordAndSpace(str, k)
     /\ str[k + 1] = ord["a"]
     /\ WordAndSpace(str, k + 1)}

\* C18: \\b holds at an offset exactly when one of the two neighbours is a
\* word character and the other is white space, so not between two word
\* characters, not at an edge of the text and not between a word character
\* and punctuation; \\B holds exactly when \\b does not.
C18_WordBoundary ==
  (phase = "matched" /\ form.kind \in {"boundary", "word"}) =>
    /\ form.kind = "boundary" =>
         ((loc # <<>>) <=>
            /\ Len(input) = form.before + form.after
            /\ form.negate <=> ~WordAndSpace(input, form.before))
    /\ form.kind = "word" =>
         /\ (loc # <<>>) <=> WordOffsets(input) # {}
         /\ loc # <<>> =>
              /\ loc[1] \in WordOffsets(input)
              /\ \A k \in WordOffsets(input) : loc[1] <= k
              /\ loc[2] = loc[1] + 1

\* ^.\\b.$ matches "a ": the offset between a word character and a space.
C18_Witness ==
  /\ phase = "matched"
  /\ form = [kind |-> "boundary", before |-> 1, after |-> 1, negate |-> FALSE]
  /\ input = S(<<"a", " ">>)
  /\ WordAndSpace(input, 1)
  /\ Group0(loc) = <<0, 2>>

=============================================================================
